---- MODULE Spec2Model ----
(***************************************************************************)
(* GLTank: the image compositing pipeline (imageScripts/Image.py) and the  *)
(* card state of the make-mode panel (PySideApp/MakeModeModule.py).        *)
(*                                                                         *)
(* An image is a record [h, w, ch, px]: height, width, channel count and   *)
(* px, a function from <<y, x>> (numpy's [y, x]) to the pixel, a tuple of  *)
(* ch channel values in 0..255.                                            *)
(*                                                                         *)
(* The six position modes are written in ASCII:                            *)
(*   TopLeft = zuo-shang-jiao, TopRight = you-shang-jiao,                  *)
(*   BottomLeft = zuo-xia-jiao, BottomRight = you-xia-jiao,                *)
(*   DiagTLBR = zuo-shang-you-xia, DiagTRBL = you-shang-zuo-xia.           *)
(***************************************************************************)
EXTENDS Integers, Sequences, FiniteSets, TLC

VARIABLES
    phase,          \* position of the operation under study
    image,          \* filter_pixels_2x2: the argument image
    mode,           \* filter_pixels_2x2: the argument mode
    filtered,       \* filter_pixels_2x2(image, mode)
    refiltered,     \* filter_pixels_2x2(filtered, mode)
    canvas,         \* blend_on_canvas: the argument canvas
    overlay,        \* blend_on_canvas: the argument overlay
    blended,        \* blend_on_canvas(canvas, overlay)
    card_states,    \* MakeModeModule.card_states, in the dict's insertion order
    result_image,   \* process_images: the composite it saved and displayed
    trace,          \* process_images: the calls it made, in order
    processed,      \* process_images: per card index, the image it blended
    output_files,   \* the numbers n of the files result_blend[-n].png in output/
    saved,          \* save_image: the last path it resolved, and what it found
    outcome,        \* save_image: how the last call ended
    history,        \* output/: the files written and deleted, in order
    dims,           \* scale-to-cover: overlay and canvas width and height
    scaled,         \* scale-to-cover: <<new_height, new_width>>
    window,         \* scale-to-cover: the destination and source windows
    prepared,       \* prepare_blend_images(canvas, overlay)[1]
    via_prepared,   \* blend_on_canvas(canvas, prepared)
    levels_arg,     \* adjust_levels: <<in_min, in_max, out_min, out_max>>
    adjusted,       \* adjust_levels(image, levels_arg)
    image1,         \* blend_images: the first argument
    image2,         \* blend_images: the second argument
    blend_new,      \* blend_images(image1, image2) of src/src/imageScripts/Image.py
    blend_old,      \* blend_images(image1, image2) of src/imageScripts/Image.py
    heap,           \* the arrays in memory, by reference (position in the sequence)
    called,         \* the stage last called: its arguments, what it returned
    worker,         \* fan-out: per layer, the number of its calls already made
    overlay_b,      \* two overlays on one canvas: the second overlay
    blended_ab,     \* blend_on_canvas(blend_on_canvas(canvas, overlay), overlay_b)
    blended_ba,     \* blend_on_canvas(blend_on_canvas(canvas, overlay_b), overlay)
    int_enums,      \* the PySide6 build: do its enums compare equal to ints
    handler_raised  \* did a slot raise (printed by PySide6) in the last event

vars == <<phase, image, mode, filtered, refiltered, canvas, overlay, blended,
          card_states, result_image, trace, processed, output_files, saved,
          outcome, history, dims, scaled, window, prepared, via_prepared, levels_arg, adjusted,
          image1, image2, blend_new, blend_old, heap, called, worker,
          overlay_b, blended_ab, blended_ba,
          int_enums, handler_raised>>

appVars == <<card_states, result_image, trace, processed, output_files, saved,
             outcome, history,
             int_enums, handler_raised>>
uiVars == <<int_enums, handler_raised>>
scaleVars == <<dims, scaled, window>>
prepVars == <<prepared, via_prepared>>
levelVars == <<levels_arg, adjusted>>
growVars == <<image1, image2, blend_new, blend_old>>
frameVars == <<heap, called>>
fanVars == <<worker>>
orderVars == <<overlay_b, blended_ab, blended_ba>>
pureVars == <<image, mode, filtered, refiltered, canvas, overlay, blended>>

None == [h |-> 0, w |-> 0, ch |-> 0, px |-> <<>>]

\* No save_image call yet.
NoSave == [path |-> -1, found |-> 0, before |-> {}]
NoDims == [ow |-> 0, oh |-> 0, cw |-> 0, ch |-> 0]
NoWindow == [y_start |-> 0, y_end |-> 0, x_start |-> 0, x_end |-> 0,
             img_y_start |-> 0, img_y_end |-> 0, img_x_start |-> 0, img_x_end |-> 0]
NoOutcome == [fail |-> "none", returned |-> FALSE, raised |-> FALSE, wrote |-> FALSE]

\* No stage called, no array allocated.
NoCall == [fn |-> "none", args |-> <<>>, rets |-> <<>>, before |-> <<>>]
FrameIdle == heap = <<>> /\ called = NoCall /\ worker = <<>>

\* No second overlay.
OrderIdle == overlay_b = None /\ blended_ab = None /\ blended_ba = None

\* blend_images not called.
GrowIdle == image1 = None /\ image2 = None /\ blend_new = None /\ blend_old = None

\* The application as constructed: no card, nothing composed, output/ empty.
AppIdle ==
    /\ card_states = <<>>
    /\ result_image = None
    /\ trace = <<>>
    /\ processed = <<>>
    /\ output_files = {}
    /\ saved = NoSave
    /\ outcome = NoOutcome
    /\ history = <<>>
    /\ dims = NoDims
    /\ scaled = <<0, 0>>
    /\ window = NoWindow
    /\ OrderIdle
    /\ prepared = None
    /\ via_prepared = None
    /\ levels_arg = <<>>
    /\ adjusted = None
    /\ FrameIdle
    /\ GrowIdle
    /\ int_enums = TRUE
    /\ handler_raised = FALSE

----------------------------------------------------------------------------
(* Bounds of the explored inputs.                                          *)

MaxW == 4
MaxH == 3
MaxMarks == 1
MaxCanvasMarks == 1
MaxSuffix == 6
MaxSelect == 2
MaxEvents == 4
MaxDim == 15

----------------------------------------------------------------------------
(* Images.                                                                 *)

Pos(h, w) == (0 .. h - 1) \X (0 .. w - 1)

Modes == {"TopLeft", "TopRight", "BottomLeft", "BottomRight", "DiagTLBR", "DiagTRBL"}

emptyPix == <<0, 0, 0, 0>>

Min(a, b) == IF a < b THEN a ELSE b
Max(a, b) == IF a > b THEN a ELSE b

\* The colour the tests give the pixel at [y, x]; s tells two images apart.
TestColour(y, x, s) == <<y * 50 + 10 + s, x * 50 + 10 + s, (y + x) * 30 + 10 + s>>

\* Alpha values of the marked pixels of an input: transparent and partial.
MarkAlphas == {0, 128}

\* The sets of at most n positions, each with the alpha it carries.
RECURSIVE Markings(_, _, _)
Markings(h, w, n) ==
    IF n = 0 THEN {{}}
    ELSE LET less == Markings(h, w, n - 1)
         IN  less \cup { m \cup {e} : <<m, e>> \in
                           { me \in less \X (Pos(h, w) \X MarkAlphas) :
                               \A a \in me[1] : a[1] # me[2][1] } }

MarkAlpha(m, p) ==
    IF \E e \in m : e[1] = p THEN (CHOOSE e \in m : e[1] = p)[2] ELSE 255

RGBImage(h, w, s) ==
    [h |-> h, w |-> w, ch |-> 3,
     px |-> [p \in Pos(h, w) |-> TestColour(p[1], p[2], s)]]

RGBAImage(h, w, s, m) ==
    [h |-> h, w |-> w, ch |-> 4,
     px |-> [p \in Pos(h, w) |-> TestColour(p[1], p[2], s) \o <<MarkAlpha(m, p)>>]]

GrayImage(h, w, s) ==
    [h |-> h, w |-> w, ch |-> 1,
     px |-> [p \in Pos(h, w) |-> <<(p[1] + p[2]) * 30 + 10 + s>>]]

\* PIL's convert('RGBA') of a grey or RGB array, and fromarray of an RGBA one.
RGBAPixel(ch, v) ==
    IF ch = 4 THEN v
    ELSE IF ch = 3 THEN v \o <<255>>
    ELSE <<v[1], v[1], v[1], 255>>

\* The conversion reading the channels in OpenCV's order (B, G, R).
ToRGBA_bgr(img) ==
    [h |-> img.h, w |-> img.w, ch |-> 4,
     px |-> [p \in Pos(img.h, img.w) |->
               LET v == RGBAPixel(img.ch, img.px[p])
               IN  <<v[3], v[2], v[1], v[4]>>]]

\* np.array(Image.fromarray(image)) without .convert('RGBA').
ToRGBA_noConvert(img) == img

ToRGBA(img) ==
    [h |-> img.h, w |-> img.w, ch |-> 4,
     px |-> [p \in Pos(img.h, img.w) |-> RGBAPixel(img.ch, img.px[p])]]

----------------------------------------------------------------------------
(* filter_pixels_2x2.                                                      *)

\* The positions <<dy, dx>> of a block that the mode sets to emptyPix.
Cleared(m) ==
    CASE m = "TopLeft"     -> {<<0, 1>>, <<1, 0>>, <<1, 1>>}
      [] m = "TopRight"    -> {<<0, 0>>, <<1, 0>>, <<1, 1>>}
      [] m = "BottomLeft"  -> {<<0, 0>>, <<0, 1>>, <<1, 1>>}
      [] m = "BottomRight" -> {<<0, 0>>, <<0, 1>>, <<1, 0>>}
      [] m = "DiagTLBR"    -> {<<0, 1>>, <<1, 0>>}
      [] m = "DiagTRBL"    -> {<<0, 0>>, <<1, 1>>}
      [] OTHER             -> {}

\* The block origins the loops visit: range(0, n - 1, 2).
BlockOrigins(n) == { k \in 0 .. n - 2 : k % 2 = 0 }

\* range(0, n, 2): the loop that also visits an unpaired last row or column.
BlockOriginsAll(n) == { k \in 0 .. n - 1 : k % 2 = 0 }

\* The loops running over range(0, n, 2), clearing in unpaired rows and columns.
InBlockAll(h, w, y, x) ==
    /\ (y - (y % 2)) \in BlockOriginsAll(h)
    /\ (x - (x % 2)) \in BlockOriginsAll(w)

\* [y, x] lies in a block the loops visit.
InBlock(h, w, y, x) ==
    /\ (y - (y % 2)) \in BlockOrigins(h)
    /\ (x - (x % 2)) \in BlockOrigins(w)

\* The kept positions of the mode to its right in the combo box.
filter_pixels_2x2_shifted(img, m) ==
    LET data == ToRGBA(img)
        next == CASE m = "TopLeft" -> "TopRight" [] m = "TopRight" -> "BottomLeft"
                  [] m = "BottomLeft" -> "BottomRight" [] m = "BottomRight" -> "DiagTLBR"
                  [] m = "DiagTLBR" -> "DiagTRBL" [] OTHER -> "TopLeft"
    IN  [data EXCEPT !.px =
            [p \in Pos(img.h, img.w) |->
                IF InBlock(img.h, img.w, p[1], p[2])
                       /\ <<p[1] % 2, p[2] % 2>> \in Cleared(next)
                THEN emptyPix
                ELSE data.px[p]]]

filter_pixels_2x2(img, m) ==
    LET data == ToRGBA(img)
    IN  [data EXCEPT !.px =
            [p \in Pos(img.h, img.w) |->
                IF InBlock(img.h, img.w, p[1], p[2])
                       /\ <<p[1] % 2, p[2] % 2>> \in Cleared(m)
                THEN emptyPix
                ELSE data.px[p]]]

----------------------------------------------------------------------------
(* blend_on_canvas and prepare_blend_images.                               *)

\* The triples <<a, c, o>> up to 16 for which the double a * (c / o) falls just
\* below the integer a * c / o (IEEE 754 binary64, round to nearest): there
\* int() gives one less than the exact quotient. For every other triple up to
\* 16 int(a * (c / o)) is the floor of the exact quotient.
RoundedDown == {<<11, 15, 11>>, <<13, 15, 13>>}

\* int(a * (c / o)) for the scale c / o.
ScaleInt(a, c, o) ==
    (a * c) \div o - (IF <<a, c, o>> \in RoundedDown THEN 1 ELSE 0)

\* scale = max(canvas_width / overlay_width, canvas_height / overlay_height);
\* <<int(overlay_height * scale), int(overlay_width * scale)>>. The quotients
\* are compared and multiplied as exact fractions, which is what the float
\* arithmetic gives for the sizes explored here.
ScaledSize(oh, ow, cnvh, cnvw) ==
    IF cnvw * oh >= cnvh * ow
    THEN <<ScaleInt(oh, cnvw, ow), ScaleInt(ow, cnvw, ow)>>
    ELSE <<ScaleInt(oh, cnvh, oh), ScaleInt(ow, cnvh, oh)>>

\* PIL's resize of an RGBA image to nh x nw. A resize to the image's own size
\* returns a copy. Otherwise the resampling is reduced to its geometry: the
\* output pixel takes the source pixel its centre falls on (the Lanczos
\* kernel's weights over the neighbouring pixels are not computed).
Resize(img, nh, nw) ==
    IF nh = img.h /\ nw = img.w THEN img
    ELSE [h |-> nh, w |-> nw, ch |-> img.ch,
          px |-> [p \in Pos(nh, nw) |->
                    img.px[<<((2 * p[1] + 1) * img.h) \div (2 * nh),
                             ((2 * p[2] + 1) * img.w) \div (2 * nw)>>]]]

\* The centre offset and the two windows of the scaled overlay on the canvas:
\* destination [y_start:y_end, x_start:x_end] and source
\* [img_y_start:img_y_end, img_x_start:img_x_end].
Windows(cnvh, cnvw, new_height, new_width) ==
    LET offset_x == (cnvw - new_width) \div 2
        offset_y == (cnvh - new_height) \div 2
    IN  [y_start |-> Max(0, offset_y),
         y_end |-> Min(cnvh, offset_y + new_height),
         x_start |-> Max(0, offset_x),
         x_end |-> Min(cnvw, offset_x + new_width),
         img_y_start |-> Max(0, 0 - offset_y),
         img_y_end |-> Min(new_height, cnvh - offset_y),
         img_x_start |-> Max(0, 0 - offset_x),
         img_x_end |-> Min(new_width, cnvw - offset_x)]

\* p lies in the destination window.
InWindow(win, p) ==
    /\ win.y_start <= p[1] /\ p[1] < win.y_end
    /\ win.x_start <= p[2] /\ p[2] < win.x_end

\* The source position written to the destination position p.
SourceOf(win, p) ==
    <<p[1] - win.y_start + win.img_y_start, p[2] - win.x_start + win.img_x_start>>

\* The write that keeps what the canvas already holds: the first layer wins.
WritePixel_keepUnder(under, over) == IF under[4] > 0 THEN under ELSE over

\* The write without the alpha test: every overlay pixel replaces the canvas's.
WritePixel_noTest(under, over) == over

\* The masked write: rgba_canvas[mask] = overlay[mask], mask = alpha > 0.
WritePixel(under, over) == IF over[4] > 0 THEN over ELSE under

blend_on_canvas(cnv, ovl) ==
    LET rgba_canvas == ToRGBA(cnv)
    IN  IF cnv.h = ovl.h /\ cnv.w = ovl.w
        THEN IF ovl.ch = 4
             THEN [rgba_canvas EXCEPT !.px =
                      [p \in Pos(cnv.h, cnv.w) |->
                          WritePixel(rgba_canvas.px[p], ovl.px[p])]]
             ELSE [rgba_canvas EXCEPT !.px =
                      [p \in Pos(cnv.h, cnv.w) |->
                          <<ovl.px[p][1], ovl.px[p][2], ovl.px[p][3],
                            rgba_canvas.px[p][4]>>]]
        ELSE LET size == ScaledSize(ovl.h, ovl.w, cnv.h, cnv.w)
                 scaled_overlay == Resize(ToRGBA(ovl), size[1], size[2])
                 win == Windows(cnv.h, cnv.w, size[1], size[2])
             IN  [rgba_canvas EXCEPT !.px =
                     [p \in Pos(cnv.h, cnv.w) |->
                         IF InWindow(win, p)
                         THEN WritePixel(rgba_canvas.px[p],
                                         scaled_overlay.px[SourceOf(win, p)])
                         ELSE rgba_canvas.px[p]]]

\* The second element of prepare_blend_images's result: temp_canvas.
prepare_blend_images(cnv, ovl) ==
    LET size == ScaledSize(ovl.h, ovl.w, cnv.h, cnv.w)
        scaled_overlay == Resize(ToRGBA(ovl), size[1], size[2])
        win == Windows(cnv.h, cnv.w, size[1], size[2])
    IN  [h |-> cnv.h, w |-> cnv.w, ch |-> 4,
         px |-> [p \in Pos(cnv.h, cnv.w) |->
                    IF InWindow(win, p)
                    THEN scaled_overlay.px[SourceOf(win, p)]
                    ELSE <<0, 0, 0, 0>>]]

----------------------------------------------------------------------------
(* The filter on its own: an image and a mode, filtered once and twice.    *)

FilterInputs ==
    UNION { {RGBImage(h, w, 0), GrayImage(h, w, 0)}
              \cup { RGBAImage(h, w, 0, m) : m \in Markings(h, w, MaxMarks) }
            : <<h, w>> \in (1 .. MaxH) \X (1 .. MaxW) }

InitFilter ==
    /\ phase = "input"
    /\ image \in FilterInputs
    /\ mode \in Modes
    /\ filtered = None
    /\ refiltered = None
    /\ canvas = None
    /\ overlay = None
    /\ blended = None
    /\ AppIdle

Filter ==
    /\ phase = "input"
    /\ filtered' = filter_pixels_2x2(image, mode)
    /\ phase' = "filtered"
    /\ UNCHANGED <<image, mode, refiltered, canvas, overlay, blended, appVars, scaleVars, levelVars, growVars, fanVars, orderVars, frameVars, prepVars>>

FilterAgain ==
    /\ phase = "filtered"
    /\ refiltered' = filter_pixels_2x2(filtered, mode)
    /\ phase' = "refiltered"
    /\ UNCHANGED <<image, mode, filtered, canvas, overlay, blended, appVars, scaleVars, levelVars, growVars, fanVars, orderVars, frameVars, prepVars>>

NextFilter == Filter \/ FilterAgain

SpecFilter == InitFilter /\ [][NextFilter]_vars

\* The positions <<dx, dy>> of a block that each mode keeps, as C2 lists them.
KeptOffsets(m) ==
    CASE m = "TopLeft"     -> {<<0, 0>>}
      [] m = "TopRight"    -> {<<1, 0>>}
      [] m = "BottomLeft"  -> {<<0, 1>>}
      [] m = "BottomRight" -> {<<1, 1>>}
      [] m = "DiagTLBR"    -> {<<0, 0>>, <<1, 1>>}
      [] m = "DiagTRBL"    -> {<<1, 0>>, <<0, 1>>}

\* The input pixel at p with its colour and alpha (255 where the input has none).
InputPixel(p) == RGBAPixel(image.ch, image.px[p])

C4_Idempotent ==
    phase = "refiltered" => refiltered = filtered

\* A second pass over an image whose first pass cleared pixels and kept others.
C4_Witness ==
    /\ phase = "refiltered"
    /\ image.w = 4 /\ image.h = 3
    /\ filtered # ToRGBA(image)
    /\ \E p \in Pos(image.h, image.w) : refiltered.px[p] # <<0, 0, 0, 0>>
    /\ \E p \in Pos(image.h, image.w) :
           refiltered.px[p] = <<0, 0, 0, 0>> /\ InputPixel(p) # <<0, 0, 0, 0>>

----------------------------------------------------------------------------
(* blend_on_canvas on its own: a canvas and an overlay.                    *)

\* Canvases: RGB, or RGBA with at most MaxCanvasMarks marked pixels.
CanvasInputs(h, w) ==
    {RGBImage(h, w, 5)} \cup { RGBAImage(h, w, 5, m) : m \in Markings(h, w, MaxCanvasMarks) }

\* Overlays of the canvas's size: RGB, or RGBA with at most MaxMarks marked pixels.
SameSizeOverlays(h, w) ==
    {RGBImage(h, w, 0)} \cup { RGBAImage(h, w, 0, m) : m \in Markings(h, w, MaxMarks) }

\* Overlays of another size: RGB and opaque RGBA.
OtherSizeOverlays(h, w) ==
    UNION { {RGBImage(oh, ow, 0), RGBAImage(oh, ow, 0, {})}
            : <<oh, ow>> \in ((1 .. MaxH) \X (1 .. MaxW)) \ {<<h, w>>} }

InitBlend ==
    /\ phase = "input"
    /\ \E <<h, w>> \in (1 .. MaxH) \X (1 .. MaxW) :
           /\ canvas \in CanvasInputs(h, w)
           /\ overlay \in SameSizeOverlays(h, w) \cup OtherSizeOverlays(h, w)
    /\ blended = None
    /\ image = None
    /\ mode = "TopLeft"
    /\ filtered = None
    /\ refiltered = None
    /\ AppIdle

Blend ==
    /\ phase = "input"
    /\ blended' = blend_on_canvas(canvas, overlay)
    /\ prepared' = prepare_blend_images(canvas, overlay)
    /\ via_prepared' = blend_on_canvas(canvas, prepare_blend_images(canvas, overlay))
    /\ phase' = "blended"
    /\ UNCHANGED <<image, mode, filtered, refiltered, canvas, overlay, appVars, scaleVars, levelVars, growVars, fanVars, orderVars, frameVars>>

NextBlend == Blend

SpecBlend == InitBlend /\ [][NextBlend]_vars

\* The canvas pixel at p as RGBA (alpha 255 where the canvas has no alpha).
CanvasPixel(p) == RGBAPixel(canvas.ch, canvas.px[p])

\* C1: an RGBA overlay of the canvas's width and height: each result pixel is
\* the overlay's RGBA value where the overlay's alpha is > 0 and the canvas's
\* original RGBA value where the overlay's alpha is 0.
C1_AlphaTest ==
    (phase = "blended" /\ overlay.ch = 4 /\ overlay.h = canvas.h /\ overlay.w = canvas.w) =>
        \A p \in Pos(canvas.h, canvas.w) :
            /\ overlay.px[p][4] > 0 => blended.px[p] = overlay.px[p]
            /\ overlay.px[p][4] = 0 => blended.px[p] = CanvasPixel(p)

\* A same-size overlay with a transparent pixel: it was skipped, another copied.
C1_Witness ==
    /\ phase = "blended"
    /\ overlay.ch = 4 /\ overlay.h = canvas.h /\ overlay.w = canvas.w
    /\ canvas.w = 4 /\ canvas.h = 3
    /\ overlay.px[<<1, 2>>][4] = 0
    /\ blended.px[<<1, 2>>] = CanvasPixel(<<1, 2>>)
    /\ blended.px[<<1, 2>>] # overlay.px[<<1, 2>>]
    /\ blended.px[<<0, 0>>] = overlay.px[<<0, 0>>]

\* C17: for every canvas and every overlay (RGB or RGBA, of the canvas's size
\* or not) blend_on_canvas(canvas, overlay) equals
\* blend_on_canvas(canvas, prepare_blend_images(canvas, overlay)[1]).
C17_Interchangeable ==
    phase = "blended" => via_prepared = blended

\* C17 for RGBA overlays and for overlays of another size than the canvas:
\* there the two ways give the same result.
C17_InterchangeableRGBA ==
    (phase = "blended" /\ (overlay.ch = 4 \/ overlay.h # canvas.h \/ overlay.w # canvas.w)) =>
        via_prepared = blended

\* An RGB overlay of the canvas's size on a canvas pixel of alpha 0: written
\* directly the pixel keeps alpha 0, written through the prepared overlay it
\* gets alpha 255.
C17_Witness ==
    /\ phase = "blended"
    /\ overlay.ch = 3 /\ canvas.ch = 4
    /\ overlay.h = canvas.h /\ overlay.w = canvas.w
    /\ canvas.px[<<0, 0>>][4] = 0
    /\ blended.px[<<0, 0>>][4] = 0
    /\ via_prepared.px[<<0, 0>>][4] = 255

----------------------------------------------------------------------------
(* adjust_levels, safe_imread, save_image's path resolution.               *)

\* The mapping without the output black point: x * out_range, out_min not added.
adjust_value_noOutMin(v, in_min, in_max, out_min, out_max) ==
    LET in_range == in_max - in_min
        out_range == out_max - out_min
        den == IF in_range > 0 THEN in_range ELSE 0 - in_range
        num == IF in_range > 0
               THEN Max(0, Min(den, v - in_min))
               ELSE Max(0, Min(den, in_min - v))
    IN  Max(0, Min(255, (num * out_range) \div den))

\* The mapping without `* out_range`: the clipped [0, 1] value plus out_min.
adjust_value_unscaled(v, in_min, in_max, out_min, out_max) ==
    LET in_range == in_max - in_min
        den == IF in_range > 0 THEN in_range ELSE 0 - in_range
        num == IF in_range > 0
               THEN Max(0, Min(den, v - in_min))
               ELSE Max(0, Min(den, in_min - v))
    IN  Max(0, Min(255, (num + out_min * den) \div den))

\* One channel value through adjust_levels with gamma = 1.0:
\* clip((v/255 - in_min/255) * (255/in_range), 0, 1) * out_range + out_min,
\* clipped to [0, 255] and truncated. The clipped quotient is kept as the
\* fraction num/den; the float32 steps give the same integer for the levels
\* explored here.
adjust_value(v, in_min, in_max, out_min, out_max) ==
    LET in_range == in_max - in_min
        out_range == out_max - out_min
        den == IF in_range > 0 THEN in_range ELSE 0 - in_range
        num == IF in_range > 0
               THEN Max(0, Min(den, v - in_min))
               ELSE Max(0, Min(den, in_min - v))
        y == IF den = 0 THEN out_min     \* not reached: adjust_levels_raises
             ELSE (num * out_range + out_min * den) \div den
    IN  Max(0, Min(255, y))

\* Output levels that are not whole numbers are written in halves.
LevelUnit == 2

\* v to the power gamma, for the whole-number gammas explored.
RECURSIVE Pow(_, _)
Pow(v, gamma) == IF gamma = 0 THEN 1 ELSE v * Pow(v, gamma - 1)

\* The mapping without the np.clip(..., 0, 1) of the input range.
adjust_value_gamma_noClip(v, in_min, in_max, out_min, out_max, gamma) ==
    LET den == in_max - in_min
        num == v - in_min
    IN  Max(0, Min(255, (Pow(num, gamma) * (out_max - out_min) + out_min * Pow(den, gamma))
                            \div (LevelUnit * Pow(den, gamma))))

\* One channel value through adjust_levels with in_min < in_max, a gamma, and
\* out_min and out_max given in halves (21 is 10.5):
\* clip((v/255 - in_min/255) * (255/in_range), 0, 1) ** gamma * out_range + out_min,
\* clipped to [0, 255] and truncated by astype(np.uint8). Exact fractions; the
\* float32 steps give the same integer for the levels explored here.
adjust_value_gamma(v, in_min, in_max, out_min, out_max, gamma) ==
    LET den == in_max - in_min
        num == Max(0, Min(den, v - in_min))
    IN  Max(0, Min(255, (Pow(num, gamma) * (out_max - out_min) + out_min * Pow(den, gamma))
                            \div (LevelUnit * Pow(den, gamma))))

\* adjust_levels on every channel of every pixel (an alpha channel included);
\* lv is <<in_min, in_max, out_min, out_max>> with gamma left at 1.0, or
\* <<in_min, in_max, out_min, out_max, gamma>> with the outputs in halves.
adjust_levels(img, lv) ==
    [img EXCEPT !.px =
        [p \in Pos(img.h, img.w) |->
            [c \in 1 .. img.ch |->
                IF Len(lv) = 4
                THEN adjust_value(img.px[p][c], lv[1], lv[2], lv[3], lv[4])
                ELSE adjust_value_gamma(img.px[p][c], lv[1], lv[2], lv[3], lv[4], lv[5])]]]

\* The division giving a value (inf) in place of raising.
adjust_levels_raises_never(lv) == FALSE

\* 255.0 / in_range raises ZeroDivisionError when in_max = in_min.
adjust_levels_raises(lv) == lv[2] - lv[1] = 0

\* The image files on disk: two of the same even size and one taller, of odd
\* height.
FileList == <<"a.png", "b.png", "c.png">>
Files == { FileList[k] : k \in DOMAIN FileList }

\* safe_imread: the file's pixels as an RGB array.
safe_imread(path) ==
    CASE path = "a.png" -> RGBImage(2, 2, 100)
      [] path = "b.png" -> RGBImage(2, 2, 0)
      [] path = "c.png" -> RGBImage(3, 2, 40)

\* save_image's loop: counter = 1; final_path = <name>.png (written 0 here);
\* while the path exists: final_path = <name>-<counter>.png (written counter
\* here), counter += 1. The result carries the number of files found existing.
RECURSIVE ProbeLoop(_, _, _, _)
ProbeLoop(files, final_path, counter, found) ==
    IF final_path \in files
    THEN ProbeLoop(files, counter, counter + 1, found + 1)
    ELSE [path |-> final_path, found |-> found]

\* An `if` in place of the `while`: <name>-1.png is taken without a probe.
ResolvePath_once(files) ==
    IF 0 \in files THEN [path |-> 1, found |-> 1] ELSE [path |-> 0, found |-> 0]

\* No probe at all: every save goes to <name>.png.
ResolvePath_overwrite(files) == [path |-> 0, found |-> 0]

ResolvePath(files) == ProbeLoop(files, 0, 1, 0)

\* The calls of save_image's try block that can raise: os.makedirs, before the
\* path is resolved; Image.fromarray and pil_image.save, after it.
SaveFailures == {"none", "makedirs", "fromarray", "save"}

\* An exception leaving the function: the try block without its except clause.
SaveOutcome_noExcept(fail, wrote) ==
    [fail |-> fail, returned |-> fail = "none", raised |-> fail # "none", wrote |-> wrote]

\* try: ... return True / except Exception: print(...); return False.
SaveOutcome(fail, wrote) ==
    [fail |-> fail, returned |-> fail = "none", raised |-> FALSE, wrote |-> wrote]

----------------------------------------------------------------------------
(* MakeModeModule.process_images.                                          *)

\* The spin boxes' defaults, and the levels the tests set.
LevelsDefault == <<0, 255, 0, 255>>
LevelsDark == <<0, 255, 0, 25>>
LevelsBright == <<0, 255, 25, 255>>
LevelsFlat == <<128, 128, 0, 255>>
LevelsChoices == {LevelsDark, LevelsBright, LevelsFlat}

NoCard == [main_canvas |-> FALSE, position |-> "none", levels |-> <<>>]

\* The state add_images gives a new image, with the widgets of its card.
CardState(path, index, checked, position, levels) ==
    [path |-> path, index |-> index, main_canvas |-> FALSE, position |-> "TopLeft",
     levels |-> LevelsDefault, has_card |-> TRUE,
     card |-> [main_canvas |-> checked, position |-> position, levels |-> levels]]

\* sorted(card_states.keys(), key = index): the positions in card_states of
\* the cards, in ascending index.
RECURSIVE SortedByIndex(_, _)
SortedByIndex(cs, todo) ==
    IF todo = {} THEN <<>>
    ELSE LET k == CHOOSE k \in todo : \A j \in todo : cs[k].index <= cs[j].index
         IN  <<k>> \o SortedByIndex(cs, todo \ {k})

sorted_paths(cs) == SortedByIndex(cs, DOMAIN cs)

\* next((i for i, path in enumerate(sorted_paths) if checked), 0), from 1 here.
main_canvas_index(cs) ==
    LET sp == sorted_paths(cs)
        checked == { i \in DOMAIN sp : cs[sp[i]].card.main_canvas }
    IN  IF checked = {} THEN 1 ELSE CHOOSE i \in checked : \A j \in checked : i <= j

\* The loop over enumerate(sorted_paths) with the main canvas skipped.
RECURSIVE OtherLayersFrom(_, _, _)
OtherLayersFrom(i, n, main) ==
    IF i > n THEN <<>>
    ELSE (IF i = main THEN <<>> ELSE <<i>>) \o OtherLayersFrom(i + 1, n, main)

\* The loop without the skip: the main canvas is processed again in its turn.
LayerOrder_noSkip(n, main) == <<main>> \o OtherLayersFrom(1, n, 0)

\* The loop over reversed(list(enumerate(sorted_paths))): the other layers
\* in descending index.
LayerOrder_descending(n, main) ==
    LET up == OtherLayersFrom(1, n, main)
    IN  <<main>> \o [k \in DOMAIN up |-> up[Len(up) + 1 - k]]

\* The order in which the layers are processed and written.
LayerOrder(n, main) == <<main>> \o OtherLayersFrom(1, n, main)

\* The calls with the block selection before the alignment.
LayerCalls_filterFirst(is_main) ==
    IF is_main
    THEN <<"safe_imread", "adjust_levels", "filter_pixels_2x2", "blend_on_canvas">>
    ELSE <<"safe_imread", "adjust_levels", "filter_pixels_2x2", "prepare_blend_images",
           "blend_on_canvas">>

\* The calls process_images makes for one layer, in order.
LayerCalls(is_main) ==
    IF is_main
    THEN <<"safe_imread", "adjust_levels", "filter_pixels_2x2", "blend_on_canvas">>
    ELSE <<"safe_imread", "adjust_levels", "prepare_blend_images", "filter_pixels_2x2",
           "blend_on_canvas">>

\* The whole run as a list of <<call, position in sorted_paths>>.
RECURSIVE CallsOf(_, _, _)
CallsOf(order, k, main) ==
    IF k > Len(order) THEN <<>>
    ELSE LET calls == LayerCalls(order[k] = main)
         IN  [c \in DOMAIN calls |-> <<calls[c], order[k]>>] \o CallsOf(order, k + 1, main)

\* np.zeros with the main image's width and height exchanged.
result_zeros_swapped(main_image) ==
    [h |-> main_image.w, w |-> main_image.h, ch |-> 4,
     px |-> [p \in Pos(main_image.w, main_image.h) |-> <<0, 0, 0, 0>>]]

\* result_image = np.zeros((main_image.shape[0], main_image.shape[1], 4)).
result_zeros(main_image) ==
    [h |-> main_image.h, w |-> main_image.w, ch |-> 4,
     px |-> [p \in Pos(main_image.h, main_image.w) |-> <<0, 0, 0, 0>>]]

\* One call applied to the locals of process_images: image (the layer in
\* work), main_image, result_image, and the images handed to blend_on_canvas.
ApplyCall(st, call, cs, main) ==
    LET state == cs[sorted_paths(cs)[call[2]]]
        is_main == call[2] = main
    IN  IF st.failed THEN st
        ELSE CASE call[1] = "safe_imread" ->
                    LET img == safe_imread(state.path)
                    IN  IF is_main
                        THEN [st EXCEPT !.image = img, !.main_image = img,
                                        !.result_image = result_zeros(img)]
                        ELSE [st EXCEPT !.image = img]
               [] call[1] = "adjust_levels" ->
                    IF adjust_levels_raises(state.card.levels)
                    THEN [st EXCEPT !.failed = TRUE]
                    ELSE [st EXCEPT !.image = adjust_levels(st.image, state.card.levels)]
               [] call[1] = "prepare_blend_images" ->
                    [st EXCEPT !.image = prepare_blend_images(st.main_image, st.image)]
               [] call[1] = "filter_pixels_2x2" ->
                    LET img == filter_pixels_2x2(st.image, state.card.position)
                    IN  IF is_main
                        THEN [st EXCEPT !.image = img, !.main_image = img]
                        ELSE [st EXCEPT !.image = img]
               [] call[1] = "blend_on_canvas" ->
                    [st EXCEPT !.result_image = blend_on_canvas(st.result_image, st.image),
                               !.blended = [st.blended EXCEPT ![call[2]] = st.image]]

RECURSIVE RunCalls(_, _, _, _, _)
RunCalls(st, calls, k, cs, main) ==
    IF k > Len(calls) THEN st
    ELSE RunCalls(ApplyCall([st EXCEPT !.done = IF st.failed THEN st.done ELSE k],
                            calls[k], cs, main),
                  calls, k + 1, cs, main)

\* process_images up to save_image.
Composite(cs) ==
    LET main == main_canvas_index(cs)
        calls == CallsOf(LayerOrder(Len(cs), main), 1, main)
        start == [image |-> None, main_image |-> None, result_image |-> None,
                  blended |-> [i \in DOMAIN cs |-> None], failed |-> FALSE, done |-> 0]
        end == RunCalls(start, calls, 1, cs, main)
    IN  [end EXCEPT !.done = SubSeq(calls, 1, IF end.failed THEN end.done - 1 ELSE Len(calls))]

\* The cards a run of process_images can find: distinct files (added in the
\* order of FileList), indices 0..n-1 in insertion order, every card built, at
\* most one checked as main canvas.
InitProcess ==
    /\ phase = "cards"
    /\ \E n \in 1 .. Len(FileList) :
       \E f \in [1 .. n -> DOMAIN FileList] :
           /\ \A i, j \in 1 .. n : i < j => f[i] < f[j]
           /\ \E m \in 0 .. n :
              \E pos \in [1 .. n -> Modes] :
              \E lv \in [1 .. n -> LevelsChoices] :
                  card_states = [i \in 1 .. n |->
                                    CardState(FileList[f[i]], i - 1, i = m, pos[i], lv[i])]
    /\ result_image = None
    /\ trace = <<>>
    /\ processed = <<>>
    /\ output_files = {}
    /\ saved = NoSave
    /\ outcome = NoOutcome
    /\ history = <<>>
    /\ dims = NoDims
    /\ scaled = <<0, 0>>
    /\ window = NoWindow
    /\ OrderIdle
    /\ prepared = None
    /\ via_prepared = None
    /\ levels_arg = <<>>
    /\ adjusted = None
    /\ FrameIdle
    /\ GrowIdle
    /\ int_enums = TRUE
    /\ handler_raised = FALSE
    /\ image = None /\ mode = "TopLeft" /\ filtered = None /\ refiltered = None
    /\ canvas = None /\ overlay = None /\ blended = None

\* The make button: process_images, with the save of the result.
process_images ==
    /\ phase = "cards"
    /\ \E run \in {Composite(card_states)} :
           /\ trace' = run.done
           /\ processed' = run.blended
           /\ IF run.failed
              THEN /\ phase' = "raised"
                   /\ UNCHANGED <<result_image, output_files, saved, outcome, history>>
              ELSE /\ phase' = "processed"
                   /\ result_image' = run.result_image
                   /\ output_files' = output_files \cup {ResolvePath(output_files).path}
                   /\ saved' = [path |-> ResolvePath(output_files).path,
                                found |-> ResolvePath(output_files).found,
                                before |-> output_files]
                   /\ outcome' = SaveOutcome("none", TRUE)
                   /\ history' = Append(history, [op |-> "save",
                                                   n |-> ResolvePath(output_files).path])
    /\ UNCHANGED <<card_states, uiVars, pureVars, scaleVars, levelVars, growVars, fanVars, orderVars, frameVars, prepVars>>

NextProcess == process_images

SpecProcess == InitProcess /\ [][NextProcess]_vars

\* The cards in ascending index, and the file each one shows.
CardAt(i) == card_states[sorted_paths(card_states)[i]]

\* The main-canvas layer: the checked card, or the card of lowest index.
MainLayer ==
    IF \E i \in DOMAIN card_states : CardAt(i).card.main_canvas
    THEN CHOOSE i \in DOMAIN card_states : CardAt(i).card.main_canvas
    ELSE 1

\* The layers in the order their blend_on_canvas calls appear in the trace.
IsWrite(call) == call[1] = "blend_on_canvas"
Writes == [k \in DOMAIN SelectSeq(trace, IsWrite) |-> SelectSeq(trace, IsWrite)[k][2]]

\* The place in the trace of layer i's call of the given function (0: none).
CallPlace(fn, i) ==
    IF \E k \in DOMAIN trace : trace[k] = <<fn, i>>
    THEN CHOOSE k \in DOMAIN trace : trace[k] = <<fn, i>>
    ELSE 0

\* The scenario of C5: two cards on files of the same even size, the first the
\* main canvas with levels (0,255,0,25) and the TL-BR diagonal, the second with
\* levels (0,255,25,255) and the TR-BL diagonal.
C5_Scenario ==
    /\ Len(card_states) = 2
    /\ MainLayer = 1
    /\ safe_imread(CardAt(1).path).h = safe_imread(CardAt(2).path).h
    /\ safe_imread(CardAt(1).path).w = safe_imread(CardAt(2).path).w
    /\ safe_imread(CardAt(1).path).h % 2 = 0
    /\ safe_imread(CardAt(1).path).w % 2 = 0
    /\ CardAt(1).card.levels = <<0, 255, 0, 25>>
    /\ CardAt(1).card.position = "DiagTLBR"
    /\ CardAt(2).card.levels = <<0, 255, 25, 255>>
    /\ CardAt(2).card.position = "DiagTRBL"

\* C5: in that scenario the output has the layers' width and height, alpha 255
\* at every pixel, layer 1's tone-mapped value (each channel <= 25) on the
\* TL-BR diagonal of every block and layer 2's (each channel >= 25) on the
\* TR-BL diagonal.
C5_EndToEnd ==
    (phase = "processed" /\ C5_Scenario) =>
        LET in1 == safe_imread(CardAt(1).path)
            in2 == safe_imread(CardAt(2).path)
        IN  /\ result_image.h = in1.h /\ result_image.w = in1.w /\ result_image.ch = 4
            /\ \A p \in Pos(in1.h, in1.w) :
                   LET from == IF p[1] % 2 = p[2] % 2 THEN in1 ELSE in2
                       lv == IF p[1] % 2 = p[2] % 2 THEN CardAt(1).card.levels
                             ELSE CardAt(2).card.levels
                   IN  /\ result_image.px[p][4] = 255
                       /\ \A c \in 1 .. 3 :
                              /\ result_image.px[p][c] =
                                     adjust_value(from.px[p][c], lv[1], lv[2], lv[3], lv[4])
                              /\ p[1] % 2 = p[2] % 2 => result_image.px[p][c] <= 25
                              /\ p[1] % 2 # p[2] % 2 => result_image.px[p][c] >= 25

\* The scenario was run: the two diagonals of the block come from two layers.
C5_Witness ==
    /\ phase = "processed"
    /\ C5_Scenario
    /\ CardAt(1).path = "a.png"
    /\ result_image.px[<<0, 0>>] = processed[1].px[<<0, 0>>]
    /\ result_image.px[<<0, 1>>] = processed[2].px[<<0, 1>>]
    /\ result_image.px[<<0, 0>>] # result_image.px[<<0, 1>>]

\* The layers whose blended image has alpha > 0 at p, by their place in Writes.
Covering(p) == { k \in DOMAIN Writes : processed[Writes[k]].px[p][4] > 0 }

\* C6 as stated: at every output coordinate exactly one layer's processed pixel
\* (alpha > 0) is the value written; no pixel is sourced from no layer.
C6_ExactlyOneSource ==
    phase = "processed" =>
        \A p \in Pos(result_image.h, result_image.w) :
            Cardinality({ i \in DOMAIN card_states :
                            /\ processed[i].px[p][4] > 0
                            /\ result_image.px[p] = processed[i].px[p] }) = 1

\* C6, amended: an output pixel holds the processed pixel of the last layer in
\* write order whose processed pixel there has alpha > 0, and stays [0,0,0,0],
\* sourced from no layer, where no layer's processed pixel has alpha > 0.
C6_LastCoveringSource ==
    phase = "processed" =>
        \A p \in Pos(result_image.h, result_image.w) :
            IF Covering(p) = {}
            THEN result_image.px[p] = <<0, 0, 0, 0>>
            ELSE LET last == CHOOSE k \in Covering(p) : \A j \in Covering(p) : j <= k
                 IN  result_image.px[p] = processed[Writes[last]].px[p]

\* Three layers: one pixel no layer keeps, one that two layers keep.
C6_Witness ==
    /\ phase = "processed"
    /\ Len(card_states) = 3
    /\ \E p \in Pos(result_image.h, result_image.w) :
           Covering(p) = {} /\ result_image.px[p] = <<0, 0, 0, 0>>
    /\ \E p \in Pos(result_image.h, result_image.w) :
           /\ Cardinality(Covering(p)) = 2
           /\ result_image.px[p][4] = 255

\* C7: the layers are written main canvas first (the checked card, or the card
\* of lowest index when none is checked), then every other layer once, in
\* ascending card index; no layer is written twice or skipped.
C7_WriteOrder ==
    phase = "processed" =>
        /\ Len(Writes) = Len(card_states)
        /\ Writes[1] = MainLayer
        /\ \A i, j \in 2 .. Len(Writes) : i < j => Writes[i] < Writes[j]
        /\ \A layer \in DOMAIN card_states :
               Cardinality({ k \in DOMAIN Writes : Writes[k] = layer }) = 1

\* Three cards, the middle one checked: it is written first, then 1, then 3.
C7_Witness ==
    /\ phase = "processed"
    /\ Len(card_states) = 3
    /\ CardAt(2).card.main_canvas
    /\ Writes = <<2, 1, 3>>
    /\ result_image.h = safe_imread(CardAt(2).path).h

\* C9 as stated: for every non-main layer the calls come in the order
\* adjust_levels, filter_pixels_2x2, alignment to the canvas, write.
C9_FilterBeforeAlign ==
    phase = "processed" =>
        \A i \in DOMAIN card_states \ {MainLayer} :
            /\ 0 < CallPlace("adjust_levels", i)
            /\ CallPlace("adjust_levels", i) < CallPlace("filter_pixels_2x2", i)
            /\ CallPlace("filter_pixels_2x2", i) < CallPlace("prepare_blend_images", i)
            /\ CallPlace("prepare_blend_images", i) < CallPlace("blend_on_canvas", i)

\* C9, amended: for every non-main layer the calls come in the order
\* adjust_levels, alignment to the canvas (prepare_blend_images),
\* filter_pixels_2x2, write: the block selection works on the rescaled layer.
C9_AlignBeforeFilter ==
    phase = "processed" =>
        \A i \in DOMAIN card_states \ {MainLayer} :
            /\ 0 < CallPlace("adjust_levels", i)
            /\ CallPlace("adjust_levels", i) < CallPlace("prepare_blend_images", i)
            /\ CallPlace("prepare_blend_images", i) < CallPlace("filter_pixels_2x2", i)
            /\ CallPlace("filter_pixels_2x2", i) < CallPlace("blend_on_canvas", i)
            /\ processed[i] =
                   filter_pixels_2x2(
                       prepare_blend_images(
                           processed[MainLayer],
                           adjust_levels(safe_imread(CardAt(i).path), CardAt(i).card.levels)),
                       CardAt(i).card.position)

\* A layer of another size than the main canvas: rescaled, then block-selected.
C9_Witness ==
    /\ phase = "processed"
    /\ Len(card_states) = 2
    /\ MainLayer = 1
    /\ safe_imread(CardAt(2).path).h # safe_imread(CardAt(1).path).h
    /\ processed[2].h = safe_imread(CardAt(1).path).h
    /\ CardAt(2).card.position = "TopLeft"
    /\ processed[2].px[<<0, 1>>] = <<0, 0, 0, 0>>
    /\ processed[2].px[<<0, 0>>][4] = 255

\* The layer's levels have in_max = in_min.
ZeroRange(i) == CardAt(i).card.levels[2] = CardAt(i).card.levels[1]

\* process_images has run to its end or to an exception.
Ran == phase \in {"processed", "raised"}

\* C13 as stated: an invalid-parameter error (input_min = input_max) on a layer
\* that is not the main canvas aborts only that layer; every other layer is
\* still written and a result is still saved and displayed.
C13_OnlyThatLayerAborts ==
    (Ran /\ ~ZeroRange(MainLayer)) =>
        /\ phase = "processed"
        /\ result_image # None
        /\ outcome.returned
        /\ \A i \in DOMAIN card_states :
               ~ZeroRange(i) => CallPlace("blend_on_canvas", i) > 0

\* The second of two layers has input_min = input_max: the run ends in the
\* exception after the main layer was written; nothing is saved or displayed.
C13_Witness ==
    /\ phase = "raised"
    /\ Len(card_states) = 2
    /\ MainLayer = 1
    /\ ZeroRange(2) /\ ~ZeroRange(1)
    /\ Writes = <<1>>
    /\ result_image = None
    /\ output_files = {}

C22_BlendKeepsCanvasSize ==
    phase = "blended" =>
        /\ blended.h = canvas.h /\ blended.w = canvas.w /\ blended.ch = 4
        /\ DOMAIN blended.px = Pos(canvas.h, canvas.w)

----------------------------------------------------------------------------
(* save_image with a bare name, on an output directory of any content.     *)

InitSave ==
    /\ phase = "save"
    /\ output_files \in SUBSET (0 .. MaxSuffix)
    /\ saved = NoSave
    /\ outcome = NoOutcome
    /\ history = <<>>
    /\ dims = NoDims
    /\ scaled = <<0, 0>>
    /\ window = NoWindow
    /\ OrderIdle
    /\ prepared = None
    /\ via_prepared = None
    /\ levels_arg = <<>>
    /\ adjusted = None
    /\ FrameIdle
    /\ GrowIdle
    /\ card_states = <<>>
    /\ result_image = None
    /\ trace = <<>>
    /\ processed = <<>>
    /\ int_enums = TRUE
    /\ handler_raised = FALSE
    /\ image = None /\ mode = "TopLeft" /\ filtered = None /\ refiltered = None
    /\ canvas = None /\ overlay = None /\ blended = None

\* save_image(image, "result_blend"): the path is resolved and the file
\* written, unless a call raises on the way. A pil_image.save that raises may
\* leave the file it opened (left) or not.
save_image ==
    /\ phase = "save"
    /\ Cardinality(output_files) <= MaxSuffix
    /\ Len(history) < MaxEvents
    /\ \E fail \in SaveFailures :
       \E left \in (IF fail = "save" THEN BOOLEAN ELSE {FALSE}) :
       \E r \in {ResolvePath(output_files)} :
           /\ saved' = IF fail = "makedirs" THEN saved
                        ELSE [path |-> r.path, found |-> r.found, before |-> output_files]
           /\ outcome' = SaveOutcome(fail, fail = "none")
           /\ output_files' = IF fail = "none" \/ left
                               THEN output_files \cup {r.path} ELSE output_files
           /\ history' = IF fail = "none" THEN Append(history, [op |-> "save", n |-> r.path])
                          ELSE IF left THEN Append(history, [op |-> "partial", n |-> r.path])
                          ELSE history
    /\ UNCHANGED <<phase, card_states, result_image, trace, processed, uiVars, pureVars, scaleVars, levelVars, growVars, fanVars, orderVars, frameVars, prepVars>>

\* A file that save_image wrote is deleted from output/ (by the user).
delete_output_file ==
    /\ phase = "save"
    /\ Len(history) < MaxEvents
    /\ \E k \in output_files :
           /\ \E i \in DOMAIN history : history[i] = [op |-> "save", n |-> k]
           /\ output_files' = output_files \ {k}
           /\ history' = Append(history, [op |-> "delete", n |-> k])
    /\ UNCHANGED <<phase, saved, outcome, card_states, result_image, trace, processed,
                   uiVars, pureVars, scaleVars, levelVars, growVars, fanVars, orderVars, frameVars, prepVars>>

NextSave == save_image \/ delete_output_file

SpecSave == InitSave /\ [][NextSave]_vars

\* C10: a bare-name save resolves to <name>.png (0) if that file does not
\* exist, otherwise to <name>-k.png for the smallest k >= 1 whose file does not
\* exist; the path never names a file that existed when it was chosen; the
\* loop ends after finding at most as many existing files as the directory holds.
C10_SmallestFreePath ==
    saved # NoSave =>
        /\ 0 \notin saved.before => saved.path = 0
        /\ 0 \in saved.before =>
              /\ saved.path >= 1
              /\ \A k \in 1 .. saved.path - 1 : k \in saved.before
        /\ saved.path \notin saved.before
        /\ saved.found <= Cardinality(saved.before)

\* <name>.png, <name>-1.png and <name>-3.png exist: the save takes <name>-2.png.
C10_Witness ==
    /\ saved.before = {0, 1, 3}
    /\ saved.path = 2
    /\ saved.found = 2
    /\ output_files = {0, 1, 2, 3}

\* The numbers of the files save_image wrote, in the order of the calls.
Written == SelectSeq(history, LAMBDA e : e.op = "save")

\* C11 as stated: across saves interleaved with deletions of written files the
\* numbers chosen are increasing; a number once written is never chosen again.
C11_NeverReused ==
    \A i, j \in DOMAIN Written : i < j => Written[i].n < Written[j].n

\* C11, amended: the numbers chosen by saves with no deletion between them are
\* strictly increasing; a save that directly follows the deletion of file k
\* chooses the smallest free number, which is at most k, so a freed number is
\* chosen again.
C11_FirstFit ==
    \A i \in DOMAIN history :
        (i > 1 /\ history[i].op = "save") =>
            /\ history[i - 1].op = "save" => history[i - 1].n < history[i].n
            /\ history[i - 1].op = "delete" => history[i].n <= history[i - 1].n

\* <name>.png and <name>-1.png written, <name>.png deleted, <name>.png written again.
C11_Witness ==
    history = << [op |-> "save", n |-> 0], [op |-> "save", n |-> 1],
                 [op |-> "delete", n |-> 0], [op |-> "save", n |-> 0] >>

----------------------------------------------------------------------------
(* The cards of the make-mode panel: add_images, delete_image and the       *)
(* main-canvas checkboxes.                                                  *)

\* The int a QCheckBox's stateChanged signal carries.
Qt_Checked == 2
Qt_Unchecked == 0

\* The state add_images gives a new image: no 'card' entry yet.
NewState(path, index) ==
    [path |-> path, index |-> index, main_canvas |-> FALSE, position |-> "TopLeft",
     levels |-> LevelsDefault, has_card |-> FALSE, card |-> NoCard]

\* The widgets create_image_card builds: unchecked, first mode, 0/255/0/255.
create_image_card ==
    [main_canvas |-> FALSE, position |-> "TopLeft", levels |-> LevelsDefault]

\* The loop of update_main_canvas_selection over card_states.items(), from the
\* k-th item on: a state without a 'card' entry raises KeyError, which ends the
\* handler; a checked other card is unchecked (its own signal, carrying
\* Qt_Unchecked, changes nothing).
RECURSIVE UncheckOthers(_, _, _)
UncheckOthers(cs, k, index) ==
    IF k > Len(cs) THEN [cs |-> cs, raised |-> FALSE]
    ELSE IF cs[k].index = index THEN UncheckOthers(cs, k + 1, index)
    ELSE IF ~cs[k].has_card THEN [cs |-> cs, raised |-> TRUE]
    ELSE IF cs[k].card.main_canvas
         THEN UncheckOthers([cs EXCEPT ![k].card.main_canvas = FALSE], k + 1, index)
         ELSE UncheckOthers(cs, k + 1, index)

\* `if state == Qt.Checked:` compares the signal's int with the enum member;
\* with Python enums (PySide6 from 6.4 on) that comparison is False.
update_main_canvas_selection(cs, index, state, ie) ==
    IF ie /\ state = Qt_Checked
    THEN UncheckOthers(cs, 1, index)
    ELSE [cs |-> cs, raised |-> FALSE]

\* update_image_cards without its first loop: the widgets' values are lost.
SaveCards_skipped(cs) == cs

\* The first loop of update_image_cards: the widgets' values into the states.
SaveCards(cs) ==
    [k \in DOMAIN cs |->
        IF cs[k].has_card
        THEN [cs[k] EXCEPT !.main_canvas = cs[k].card.main_canvas,
                           !.position = cs[k].card.position,
                           !.levels = cs[k].card.levels]
        ELSE cs[k]]

\* The second loop of update_image_cards, from the i-th sorted path on: a new
\* card, the index, setChecked (whose signal runs the handler when the box
\* becomes checked), then the other widgets' values.
RECURSIVE RebuildCards(_, _, _, _, _)
RebuildCards(cs, sp, i, raised, ie) ==
    IF i > Len(sp) THEN [cs |-> cs, raised |-> raised]
    ELSE LET k == sp[i]
             fresh == [cs EXCEPT ![k].card = create_image_card,
                                 ![k].has_card = TRUE,
                                 ![k].index = i - 1]
             handled == IF fresh[k].main_canvas
                        THEN update_main_canvas_selection(
                                 [fresh EXCEPT ![k].card.main_canvas = TRUE],
                                 i - 1, Qt_Checked, ie)
                        ELSE [cs |-> fresh, raised |-> FALSE]
             restored == [handled.cs EXCEPT ![k].card.position = handled.cs[k].position,
                                            ![k].card.levels = handled.cs[k].levels]
         IN  RebuildCards(restored, sp, i + 1, raised \/ handled.raised, ie)

update_image_cards(cs, ie) ==
    RebuildCards(SaveCards(cs), sorted_paths(SaveCards(cs)), 1, FALSE, ie)

\* max((state['index'] for state in card_states.values()), default = -1).
MaxIndex(cs) ==
    IF cs = <<>> THEN -1
    ELSE CHOOSE m \in { cs[k].index : k \in DOMAIN cs } :
             \A k \in DOMAIN cs : cs[k].index <= m

\* The loop of add_images over enumerate(selectedFiles(), start = max_index + 1).
RECURSIVE AddStates(_, _, _, _)
AddStates(cs, sel, j, max_index) ==
    IF j > Len(sel) THEN cs
    ELSE IF \E k \in DOMAIN cs : cs[k].path = sel[j]
    THEN AddStates(cs, sel, j + 1, max_index)
    ELSE AddStates(Append(cs, NewState(sel[j], max_index + j)), sel, j + 1, max_index)

\* What the file dialog can return: up to MaxSelect distinct files.
Selections ==
    UNION { { sel \in [1 .. n -> Files] : \A i, j \in 1 .. n : sel[i] = sel[j] => i = j }
            : n \in 1 .. MaxSelect }

\* del card_states[target_path]: the sequence without its k-th item.
Without(cs, k) == SubSeq(cs, 1, k - 1) \o SubSeq(cs, k + 1, Len(cs))

\* The re-indexing loop of delete_image: index = rank in ascending index.
Reindexed(cs) ==
    [k \in DOMAIN cs |->
        [cs[k] EXCEPT !.index = Cardinality({ j \in DOMAIN cs : cs[j].index < cs[k].index })]]

InitCards ==
    /\ phase = "ui"
    /\ card_states = <<>>
    /\ int_enums \in BOOLEAN
    /\ handler_raised = FALSE
    /\ result_image = None
    /\ trace = <<>>
    /\ processed = <<>>
    /\ output_files = {}
    /\ saved = NoSave
    /\ outcome = NoOutcome
    /\ history = <<>>
    /\ dims = NoDims
    /\ scaled = <<0, 0>>
    /\ window = NoWindow
    /\ OrderIdle
    /\ prepared = None
    /\ via_prepared = None
    /\ levels_arg = <<>>
    /\ adjusted = None
    /\ FrameIdle
    /\ GrowIdle
    /\ image = None /\ mode = "TopLeft" /\ filtered = None /\ refiltered = None
    /\ canvas = None /\ overlay = None /\ blended = None

\* The add button, the dialog accepted.
add_images ==
    /\ phase = "ui"
    /\ \E sel \in Selections :
       \E r \in {update_image_cards(AddStates(card_states, sel, 1, MaxIndex(card_states)),
                                    int_enums)} :
           /\ card_states' = r.cs
           /\ handler_raised' = r.raised
    /\ UNCHANGED <<phase, int_enums, result_image, trace, processed, output_files, saved,
                   outcome, history,
                   pureVars, scaleVars, levelVars, growVars, fanVars, orderVars, frameVars, prepVars>>

\* The delete button of the card built with this index.
delete_image ==
    /\ phase = "ui"
    /\ \E k \in DOMAIN card_states :
       \E r \in {update_image_cards(Reindexed(Without(card_states, k)), int_enums)} :
           /\ card_states' = r.cs
           /\ handler_raised' = r.raised
    /\ UNCHANGED <<phase, int_enums, result_image, trace, processed, output_files, saved,
                   outcome, history,
                   pureVars, scaleVars, levelVars, growVars, fanVars, orderVars, frameVars, prepVars>>

\* A click on a card's main-canvas checkbox: the box changes, and its
\* stateChanged signal runs update_main_canvas_selection(idx, state).
main_canvas_clicked ==
    /\ phase = "ui"
    /\ \E k \in DOMAIN card_states :
       \E now \in {~card_states[k].card.main_canvas} :
       \E r \in {update_main_canvas_selection(
                     [card_states EXCEPT ![k].card.main_canvas = now],
                     card_states[k].index,
                     IF now THEN Qt_Checked ELSE Qt_Unchecked,
                     int_enums)} :
           /\ card_states' = r.cs
           /\ handler_raised' = r.raised
    /\ UNCHANGED <<phase, int_enums, result_image, trace, processed, output_files, saved,
                   outcome, history,
                   pureVars, scaleVars, levelVars, growVars, fanVars, orderVars, frameVars, prepVars>>

\* What the user sets on a card between two rebuilds: a mode in the combo
\* box, values in the four spin boxes. Neither widget has a slot connected.
\* One edit per card is drawn: away from the defaults of create_image_card.
CardModes == {"DiagTLBR"}
CardLevels == {LevelsDark}

edit_card ==
    /\ phase = "ui"
    /\ \E k \in DOMAIN card_states :
       \E m \in CardModes :
       \E lv \in CardLevels :
           /\ <<m, lv>> # <<card_states[k].card.position, card_states[k].card.levels>>
           /\ card_states' = [card_states EXCEPT ![k].card.position = m,
                                                 ![k].card.levels = lv]
    /\ handler_raised' = FALSE
    /\ UNCHANGED <<phase, int_enums, result_image, trace, processed, output_files, saved,
                   outcome, history,
                   pureVars, scaleVars, levelVars, growVars, fanVars, orderVars, frameVars, prepVars>>

NextCards == add_images \/ delete_image \/ main_canvas_clicked \/ edit_card

SpecCards == InitCards /\ [][NextCards]_vars

\* The cards whose main-canvas box is checked.
CheckedCards == { k \in DOMAIN card_states : card_states[k].card.main_canvas }

\* C8: after any sequence of add-image, delete-image and checkbox events at
\* most one card has its main-canvas box checked.
C8_AtMostOneChecked == Cardinality(CheckedCards) <= 1

\* C8 where the signal's int compares equal to Qt.Checked (PySide6 before 6.4):
\* there at most one card is checked.
C8_ExclusiveWithIntEnums == int_enums => Cardinality(CheckedCards) <= 1

\* Two cards, both checked, neither unchecked by the other's click.
C8_TwoChecked ==
    /\ ~int_enums
    /\ Len(card_states) = 2
    /\ CheckedCards = {1, 2}

Paths(cs) == { cs[k].path : k \in DOMAIN cs }
StateOf(cs, path) == cs[CHOOSE k \in DOMAIN cs : cs[k].path = path]

\* The cards' indices are exactly 0 .. n-1 and no path has two cards.
Contiguous(cs) ==
    /\ { cs[k].index : k \in DOMAIN cs } = 0 .. (Len(cs) - 1)
    /\ Cardinality(Paths(cs)) = Len(cs)

\* Every image of both card lists keeps its place relative to the others
\* and the mode and levels of its card.
Survivors(old, new) ==
    \A p \in Paths(old) \cap Paths(new) :
        /\ StateOf(new, p).card.position = StateOf(old, p).card.position
        /\ StateOf(new, p).card.levels = StateOf(old, p).card.levels
        /\ \A q \in Paths(old) \cap Paths(new) :
               (StateOf(old, p).index < StateOf(old, q).index)
                   <=> (StateOf(new, p).index < StateOf(new, q).index)

\* C29: after every completed add_images or delete_image the cards' indices
\* are exactly 0 .. n-1 with no path twice, and every image that was there
\* before and after keeps its relative order and the mode and levels the user
\* had set on its card.
C29_CardsKept ==
    [][(add_images \/ delete_image)
          => (Contiguous(card_states') /\ Survivors(card_states, card_states'))]_vars

\* Three cards rebuilt after the user's edit of the second and the third:
\* b.png, once behind a.png, is now first, its saved mode and levels those
\* of the edit.
C29_Witness ==
    /\ Len(card_states) = 2
    /\ card_states[1].path = "b.png" /\ card_states[1].index = 0
    /\ card_states[2].path = "c.png" /\ card_states[2].index = 1
    /\ \A k \in 1 .. 2 :
          /\ card_states[k].position = "DiagTLBR"
          /\ card_states[k].card.position = "DiagTLBR"
          /\ card_states[k].levels = LevelsDark
          /\ card_states[k].card.levels = LevelsDark

\* C30: no sequence of add-image, delete-image and checkbox events makes
\* update_main_canvas_selection fail on a state without a 'card' entry.
C30_HandlerNeverFails == ~handler_raised

\* C30 by build: the handler fails only where the signal's int compares equal
\* to Qt.Checked, and between two events every state has its card.
C30_FailsOnlyWithIntEnums ==
    /\ handler_raised => int_enums
    /\ \A k \in DOMAIN card_states : card_states[k].has_card

\* a.png checked, b.png added after it: the rebuild's setChecked(True) on the
\* new card of a.png ran the handler while b.png had no card yet.
C30_Witness ==
    /\ int_enums
    /\ handler_raised
    /\ Len(card_states) = 2
    /\ card_states[1].path = "a.png" /\ card_states[1].card.main_canvas
    /\ card_states[2].path = "b.png" /\ ~card_states[2].card.main_canvas

----------------------------------------------------------------------------
(* The scale-to-cover computation of blend_on_canvas and                    *)
(* prepare_blend_images, on sizes alone.                                    *)

InitScale ==
    /\ phase = "sizes"
    /\ \E ow, oh, cw, ch \in 1 .. MaxDim :
           dims = [ow |-> ow, oh |-> oh, cw |-> cw, ch |-> ch]
    /\ scaled = <<0, 0>>
    /\ window = NoWindow
    /\ OrderIdle
    /\ prepared = None
    /\ via_prepared = None
    /\ levels_arg = <<>>
    /\ adjusted = None
    /\ FrameIdle
    /\ GrowIdle
    /\ card_states = <<>>
    /\ result_image = None
    /\ trace = <<>>
    /\ processed = <<>>
    /\ output_files = {}
    /\ saved = NoSave
    /\ outcome = NoOutcome
    /\ history = <<>>
    /\ int_enums = TRUE
    /\ handler_raised = FALSE
    /\ image = None /\ mode = "TopLeft" /\ filtered = None /\ refiltered = None
    /\ canvas = None /\ overlay = None /\ blended = None

\* scale, new_width, new_height, the offsets and the windows, as both
\* functions compute them.
Scale ==
    /\ phase = "sizes"
    /\ scaled' = ScaledSize(dims.oh, dims.ow, dims.ch, dims.cw)
    /\ \E size \in {ScaledSize(dims.oh, dims.ow, dims.ch, dims.cw)} :
           window' = Windows(dims.ch, dims.cw, size[1], size[2])
    /\ phase' = "scaled"
    /\ UNCHANGED <<dims, prepVars, levelVars, growVars, fanVars, orderVars, frameVars, appVars, pureVars>>

NextScale == Scale

SpecScale == InitScale /\ [][NextScale]_vars

\* C16: for all positive overlay and canvas sizes the computed new_width is
\* >= the canvas width and new_height is >= the canvas height.
C16_Covers ==
    phase = "scaled" => (scaled[2] >= dims.cw /\ scaled[1] >= dims.ch)

\* An overlay 1 wide and 11 high on a canvas 1 wide and 15 high: new_height 14.
C16_Witness ==
    /\ phase = "scaled"
    /\ dims = [ow |-> 1, oh |-> 11, cw |-> 1, ch |-> 15]
    /\ scaled = <<14, 1>>

\* The scale as an exact fraction <<numerator, denominator>>: the larger of
\* canvas_width / overlay_width and canvas_height / overlay_height.
ExactScale ==
    IF dims.cw * dims.oh >= dims.ch * dims.ow THEN <<dims.cw, dims.ow>>
    ELSE <<dims.ch, dims.oh>>

\* round(a * scale), halves rounded up.
Rounded(a) == (2 * a * ExactScale[1] + ExactScale[2]) \div (2 * ExactScale[2])

\* C25: new_width = round(overlay_width * scale) and new_height =
\* round(overlay_height * scale), for all positive overlay and canvas sizes.
C25_Rounded ==
    phase = "scaled" => scaled = <<Rounded(dims.oh), Rounded(dims.ow)>>

\* C25, as the code has it: int() cuts the fraction off, so each new size is
\* at most the exact product and at most one below it, whatever the
\* fraction; it is never rounded up.
C25_Truncated ==
    phase = "scaled" =>
        /\ scaled[1] * ExactScale[2] <= dims.oh * ExactScale[1]
        /\ scaled[1] * ExactScale[2] >= dims.oh * ExactScale[1] - ExactScale[2]
        /\ scaled[2] * ExactScale[2] <= dims.ow * ExactScale[1]
        /\ scaled[2] * ExactScale[2] >= dims.ow * ExactScale[1] - ExactScale[2]

\* An overlay 3 wide and 2 high on a canvas 4 wide and 1 high: the scale is
\* 4/3, the height 2 * 4/3 = 2.67 becomes 2 where round gives 3.
C25_Witness ==
    /\ phase = "scaled"
    /\ dims = [ow |-> 3, oh |-> 2, cw |-> 4, ch |-> 1]
    /\ scaled = <<2, 4>>
    /\ Rounded(dims.oh) = 3

\* The resize path: the overlay's size differs from the canvas's.
ResizePath == phase = "scaled" /\ (dims.ow # dims.cw \/ dims.oh # dims.ch)

\* The two windows have the same height and width and lie within the canvas
\* and the scaled overlay.
WindowsFit ==
    /\ window.y_end - window.y_start = window.img_y_end - window.img_y_start
    /\ window.x_end - window.x_start = window.img_x_end - window.img_x_start
    /\ 0 <= window.y_start /\ window.y_start <= window.y_end /\ window.y_end <= dims.ch
    /\ 0 <= window.x_start /\ window.x_start <= window.x_end /\ window.x_end <= dims.cw
    /\ 0 <= window.img_y_start /\ window.img_y_start <= window.img_y_end
    /\ window.img_y_end <= scaled[1]
    /\ 0 <= window.img_x_start /\ window.img_x_start <= window.img_x_end
    /\ window.img_x_end <= scaled[2]

\* The margins cut off the scaled overlay on opposite sides differ by at most 1.
Centred ==
    /\ window.img_y_start - (scaled[1] - window.img_y_end) \in {-1, 0, 1}
    /\ window.img_x_start - (scaled[2] - window.img_x_end) \in {-1, 0, 1}

\* The destination window is the whole canvas.
WholeCanvas ==
    /\ window.y_start = 0 /\ window.y_end = dims.ch
    /\ window.x_start = 0 /\ window.x_end = dims.cw

\* C27: in the resize path, for all positive sizes, the destination window and
\* the source crop window have equal height and width, both lie within their
\* arrays' bounds, the destination window is the whole canvas, and the crop
\* is centred.
C27_WindowsCoverCanvas ==
    ResizePath => (WindowsFit /\ WholeCanvas /\ Centred)

\* C27, as the code has it: the windows fit and the crop is centred for all
\* sizes; the destination window is the whole canvas exactly when the scaled
\* overlay is at least as large as the canvas.
C27_WindowsFit ==
    ResizePath =>
        /\ WindowsFit
        /\ Centred
        /\ WholeCanvas <=> (scaled[1] >= dims.ch /\ scaled[2] >= dims.cw)

\* An overlay 1 wide and 11 high on a canvas 1 wide and 15 high: the scaled
\* overlay is 14 high and the last canvas row is outside the window.
C27_Witness ==
    /\ phase = "scaled"
    /\ dims = [ow |-> 1, oh |-> 11, cw |-> 1, ch |-> 15]
    /\ window.y_start = 0 /\ window.y_end = 14
    /\ window.img_y_start = 0 /\ window.img_y_end = 14

----------------------------------------------------------------------------
(* adjust_levels on its own: every uint8 value, in every channel layout.    *)

\* One-pixel images whose first channel runs over all of uint8.
LevelInputs ==
    { [h |-> 1, w |-> 1, ch |-> n,
       px |-> [p \in Pos(1, 1) |-> [c \in 1 .. n |-> (v + 85 * (c - 1)) % 256]]]
      : <<n, v>> \in {1, 3, 4} \X (0 .. 255) }
    \cup { [h |-> 1, w |-> 2, ch |-> 1,
            px |-> [p \in Pos(1, 2) |-> <<v + p[2]>>]] : v \in 0 .. 254 }

\* Levels with a gamma: input ranges, output ranges in halves (whole, with a
\* fraction, empty, narrower than one step), gamma 1.0 and 2.0.
LevelsGamma ==
    { <<i[1], i[2], o[1], o[2], g>> :
        <<i, o, g>> \in {<<0, 255>>, <<10, 200>>, <<0, 128>>}
                          \X {<<0, 510>>, <<21, 40>>, <<50, 50>>, <<0, 1>>, <<1, 509>>}
                          \X {1, 2} }

InitLevels ==
    /\ phase = "input"
    /\ image \in LevelInputs
    /\ levels_arg \in {LevelsDefault, LevelsDark, LevelsBright} \cup LevelsGamma
    /\ adjusted = None
    /\ FrameIdle
    /\ GrowIdle
    /\ mode = "TopLeft" /\ filtered = None /\ refiltered = None
    /\ canvas = None /\ overlay = None /\ blended = None
    /\ card_states = <<>>
    /\ result_image = None
    /\ trace = <<>>
    /\ processed = <<>>
    /\ output_files = {}
    /\ saved = NoSave
    /\ outcome = NoOutcome
    /\ history = <<>>
    /\ dims = NoDims
    /\ scaled = <<0, 0>>
    /\ window = NoWindow
    /\ OrderIdle
    /\ prepared = None
    /\ via_prepared = None
    /\ int_enums = TRUE
    /\ handler_raised = FALSE

Adjust ==
    /\ phase = "input"
    /\ adjusted' = adjust_levels(image, levels_arg)
    /\ phase' = "adjusted"
    /\ UNCHANGED <<levels_arg, image, mode, filtered, refiltered, canvas, overlay, blended,
                   appVars, scaleVars, prepVars, growVars, fanVars, orderVars, frameVars>>

NextLevels == Adjust

SpecLevels == InitLevels /\ [][NextLevels]_vars

Channels(img) == { <<p, c>> : p \in DOMAIN img.px, c \in 1 .. img.ch }

\* The mapping never decreases: a channel value at least as large as another
\* comes out at least as large.
Monotone ==
    \A a, b \in Channels(image) :
        image.px[a[1]][a[2]] <= image.px[b[1]][b[2]]
            => adjusted.px[a[1]][a[2]] <= adjusted.px[b[1]][b[2]]

\* C26: for adjust_levels with in_min < in_max, 0 <= out_min <= out_max <= 255
\* and gamma > 0, every channel value of the output lies in [out_min, out_max],
\* and the mapping is monotone non-decreasing in the input channel value.
C26_InOutputRange ==
    (phase = "adjusted" /\ Len(levels_arg) = 5) =>
        /\ \A a \in Channels(image) :
               /\ adjusted.px[a[1]][a[2]] * LevelUnit >= levels_arg[3]
               /\ adjusted.px[a[1]][a[2]] * LevelUnit <= levels_arg[4]
        /\ Monotone

\* C26, as the code has it: the output is truncated to an integer, so it lies
\* between out_min with its fraction cut off and out_max; it is in
\* [out_min, out_max] when out_min is a whole number. The mapping is monotone.
C26_TruncatedRange ==
    (phase = "adjusted" /\ Len(levels_arg) = 5) =>
        /\ \A a \in Channels(image) :
               /\ adjusted.px[a[1]][a[2]] >= levels_arg[3] \div LevelUnit
               /\ adjusted.px[a[1]][a[2]] * LevelUnit <= levels_arg[4]
        /\ Monotone

\* out_min = 10.5, out_max = 20, gamma 2.0: the values 9 and 10, below the
\* input range, both come out as 10.
C26_Witness ==
    /\ phase = "adjusted"
    /\ levels_arg = <<10, 200, 21, 40, 2>>
    /\ image.w = 2
    /\ image.px[<<0, 0>>] = <<9>>
    /\ adjusted.px[<<0, 0>>] = <<10>>
    /\ adjusted.px[<<0, 1>>] = <<10>>

----------------------------------------------------------------------------
(* blend_images (grow mode), in the repository's two copies of Image.py:   *)
(* src/src/imageScripts/Image.py, which the application imports, and       *)
(* src/imageScripts/Image.py, which test_levels_and_blend.py imports.      *)

MaxGrow == 3

\* Is [y, x] = p inside the top-left-anchored footprint of img.
In(img, p) == p[1] < img.h /\ p[2] < img.w

\* np.zeros((max_height, max_width, 4)) without the alpha assignment.
zeros_canvas_noAlpha(h, w) ==
    [h |-> h, w |-> w, ch |-> 4, px |-> [p \in Pos(h, w) |-> <<0, 0, 0, 0>>]]

\* np.zeros((max_height, max_width, 4)) followed by [:, :, 3] = 255.
zeros_canvas(h, w) ==
    [h |-> h, w |-> w, ch |-> 4, px |-> [p \in Pos(h, w) |-> <<0, 0, 0, 255>>]]

\* canvas[:h, :w, :3] = v[..., :3]: the colour is replaced, the alpha stays.
WriteRGB(under, v) == <<v[1], v[2], v[3], under[4]>>

\* src/src/imageScripts/Image.py, blend_images.
blend_images(img1, img2) ==
    LET max_width == Max(img1.w, img2.w)
        max_height == Max(img1.h, img2.h)
        blank == zeros_canvas(max_height, max_width)
        first == [p \in Pos(max_height, max_width) |->
                    IF In(img1, p)
                    THEN IF img1.ch = 3 THEN WriteRGB(blank.px[p], img1.px[p])
                         ELSE img1.px[p]
                    ELSE blank.px[p]]
        second == [p \in Pos(max_height, max_width) |->
                    IF In(img2, p)
                    THEN IF img2.ch = 3 THEN WriteRGB(first[p], img2.px[p])
                         ELSE IF img2.px[p][4] > 0 THEN img2.px[p] ELSE first[p]
                    ELSE first[p]]
    IN  [h |-> max_height, w |-> max_width, ch |-> 4, px |-> second]

\* src/imageScripts/Image.py, blend_images: image2[y, x, 3] is out of bounds
\* for an image2 of three channels (IndexError).
blend_images_old_raises(img1, img2) == img2.ch = 3

\* src/imageScripts/Image.py, blend_images, where it returns.
blend_images_old(img1, img2) ==
    LET max_width == Max(img1.w, img2.w)
        max_height == Max(img1.h, img2.h)
        blank == zeros_canvas(max_height, max_width)
        first == [p \in Pos(max_height, max_width) |->
                    IF In(img1, p) THEN WriteRGB(blank.px[p], img1.px[p])
                    ELSE blank.px[p]]
        second == [p \in Pos(max_height, max_width) |->
                    IF In(img2, p) /\ img2.px[p][4] # 0
                    THEN WriteRGB(first[p], img2.px[p])
                    ELSE first[p]]
    IN  [h |-> max_height, w |-> max_width, ch |-> 4, px |-> second]

\* Arguments of h x w: RGB, opaque RGBA, and RGBA with one pixel of alpha 0 or
\* 128 (as filter_pixels_2x2 and a partially transparent source produce).
GrowInputs(h, w, s) ==
    {RGBImage(h, w, s), RGBAImage(h, w, s, {})}
        \cup { RGBAImage(h, w, s, {<<p, a>>}) : <<p, a>> \in Pos(h, w) \X MarkAlphas }

InitGrow ==
    /\ phase = "input"
    /\ \E <<h1, w1>> \in (1 .. MaxGrow) \X (1 .. MaxGrow) : image1 \in GrowInputs(h1, w1, 5)
    /\ \E <<h2, w2>> \in (1 .. MaxGrow) \X (1 .. MaxGrow) : image2 \in GrowInputs(h2, w2, 0)
    /\ blend_new = None
    /\ blend_old = None
    /\ image = None /\ mode = "TopLeft" /\ filtered = None /\ refiltered = None
    /\ canvas = None /\ overlay = None /\ blended = None
    /\ card_states = <<>>
    /\ result_image = None
    /\ trace = <<>>
    /\ processed = <<>>
    /\ output_files = {}
    /\ saved = NoSave
    /\ outcome = NoOutcome
    /\ history = <<>>
    /\ dims = NoDims
    /\ scaled = <<0, 0>>
    /\ window = NoWindow
    /\ OrderIdle
    /\ prepared = None
    /\ via_prepared = None
    /\ levels_arg = <<>>
    /\ adjusted = None
    /\ FrameIdle
    /\ int_enums = TRUE
    /\ handler_raised = FALSE

\* One call of each copy's blend_images on the same arguments; the older copy
\* leaves None where it raises.
Grow ==
    /\ phase = "input"
    /\ blend_new' = blend_images(image1, image2)
    /\ blend_old' = IF blend_images_old_raises(image1, image2) THEN None
                    ELSE blend_images_old(image1, image2)
    /\ phase' = "grown"
    /\ UNCHANGED <<image1, image2, pureVars, appVars, scaleVars, prepVars, levelVars, frameVars, fanVars, orderVars>>

NextGrow == Grow

SpecGrow == InitGrow /\ [][NextGrow]_vars

\* The results blend_images returned: both copies', the older one's only
\* where it did not raise.
Returned == {blend_new} \cup (IF blend_old = None THEN {} ELSE {blend_old})

Under(newer, p) ==
    IF ~In(image1, p) THEN <<0, 0, 0, 255>>
    ELSE IF newer /\ image1.ch = 4 THEN image1.px[p]
    ELSE WriteRGB(<<0, 0, 0, 255>>, image1.px[p])

\* The alpha test of one copy's result r against an RGBA image2.
AlphaTested(r, newer) ==
    \A p \in Pos(image2.h, image2.w) :
        /\ image2.px[p][4] \in 1 .. 254 => r.px[p] = image2.px[p]
        /\ image2.px[p][4] = 0 => r.px[p] = Under(newer, p)

\* C19: in both copies of blend_images an RGBA image2 is written with the
\* alpha test: a pixel of image2 with alpha in 1..254 is copied whole,
\* partial alpha included, and a pixel with alpha 0 leaves the result pixel
\* as image1 or the canvas left it.
C19_AlphaTestBothCopies ==
    (phase = "grown" /\ image2.ch = 4) =>
        AlphaTested(blend_new, TRUE) /\ AlphaTested(blend_old, FALSE)

\* C19, as the code has it: the copy in src/src passes the alpha test; the
\* copy in src/ copies the colour of a pixel with alpha above 0 and leaves
\* the result's alpha at 255, and leaves a pixel with alpha 0 alone.
C19_AlphaTestNewCopyOnly ==
    (phase = "grown" /\ image2.ch = 4) =>
        /\ AlphaTested(blend_new, TRUE)
        /\ \A p \in Pos(image2.h, image2.w) :
               blend_old.px[p] = IF image2.px[p][4] # 0
                                 THEN WriteRGB(<<0, 0, 0, 255>>, image2.px[p])
                                 ELSE Under(FALSE, p)

\* A pixel of image2 with alpha 128: whole in the newer copy's result, its
\* colour under alpha 255 in the older copy's.
C19_Witness ==
    /\ phase = "grown"
    /\ image2.ch = 4
    /\ \E p \in Pos(image2.h, image2.w) :
           /\ image2.px[p][4] = 128
           /\ blend_new.px[p] = image2.px[p]
           /\ blend_old.px[p] = WriteRGB(<<0, 0, 0, 255>>, image2.px[p])
           /\ blend_old.px[p] # image2.px[p]

\* C20: the alpha channel of blend_images's result is 255 at every pixel,
\* for all inputs, an RGBA image1 with alpha-0 pixels included.
C20_ResultOpaque ==
    phase = "grown" =>
        \A p \in Pos(blend_new.h, blend_new.w) : blend_new.px[p][4] = 255

\* C20, as the code has it: the result's alpha at p is image2's where an RGBA
\* image2 covers p with alpha above 0, else image1's where an RGBA image1
\* covers p, else 255; the copy in src/ returns alpha 255 everywhere.
C20_ResultAlpha ==
    phase = "grown" =>
        /\ \A p \in Pos(blend_new.h, blend_new.w) :
               blend_new.px[p][4] =
                   IF In(image2, p) /\ image2.ch = 4 /\ image2.px[p][4] > 0
                   THEN image2.px[p][4]
                   ELSE IF In(image1, p) /\ image1.ch = 4 THEN image1.px[p][4]
                   ELSE 255
        /\ blend_old # None =>
               \A p \in Pos(blend_old.h, blend_old.w) : blend_old.px[p][4] = 255

\* An RGBA image1 with an alpha-0 pixel that an opaque image2 does not cover:
\* the result is transparent there.
C20_Witness ==
    /\ phase = "grown"
    /\ image1.ch = 4 /\ image1.h = 2 /\ image1.w = 2
    /\ image1.px[<<1, 1>>][4] = 0
    /\ image2.ch = 3 /\ image2.h = 1 /\ image2.w = 1
    /\ blend_new.px[<<1, 1>>] = image1.px[<<1, 1>>]
    /\ blend_new.px[<<1, 1>>][4] = 0

----------------------------------------------------------------------------
(* The stages on arrays held by reference: which array each stage          *)
(* allocates, which it copies, and into which array its assignments go.    *)

MaxArrays == 2

\* A new array: np.zeros, astype, np.array(pil_img), the result of arithmetic.
Alloc(hp, img) == [heap |-> Append(hp, img), ref |-> Len(hp) + 1]

\* rgba_canvas = canvas: a second name for the argument's array.
copy_alias(hp, r) == [heap |-> hp, ref |-> r]

\* rgba_canvas = canvas.copy().
copy(hp, r) == Alloc(hp, hp[r])

\* An assignment into the array at r (rgba_canvas[mask] = ..., img_data[y, x] = ...).
Store(hp, r, img) == [hp EXCEPT ![r] = img]

\* The canvas both compositing stages work on: a new RGBA array for an RGB
\* canvas, a copy of an RGBA one.
rgba_canvas(hp, c) == IF hp[c].ch = 3 THEN Alloc(hp, ToRGBA(hp[c])) ELSE copy(hp, c)

\* One call of a stage on the arrays at args: the memory afterwards and the
\* references it returns.
Stage(fn, hp, args, par) ==
    CASE fn = "adjust_levels" ->
            LET out == Alloc(hp, adjust_levels(hp[args[1]], par))
            IN  [heap |-> out.heap, rets |-> <<out.ref>>]
      [] fn = "filter_pixels_2x2" ->
            LET img_data == Alloc(hp, ToRGBA(hp[args[1]]))
            IN  [heap |-> Store(img_data.heap, img_data.ref,
                                filter_pixels_2x2(hp[args[1]], par)),
                 rets |-> <<img_data.ref>>]
      [] fn = "blend_images" ->
            LET a == hp[args[1]]
                b == hp[args[2]]
                cnv == Alloc(hp, zeros_canvas(Max(a.h, b.h), Max(a.w, b.w)))
            IN  [heap |-> Store(cnv.heap, cnv.ref, blend_images(a, b)),
                 rets |-> <<cnv.ref>>]
      [] fn = "blend_on_canvas" ->
            LET cnv == rgba_canvas(hp, args[1])
            IN  [heap |-> Store(cnv.heap, cnv.ref,
                                blend_on_canvas(hp[args[1]], hp[args[2]])),
                 rets |-> <<cnv.ref>>]
      [] fn = "prepare_blend_images" ->
            LET cnv == rgba_canvas(hp, args[1])
                temp_canvas == Alloc(cnv.heap, zeros_canvas_noAlpha(hp[args[1]].h, hp[args[1]].w))
            IN  [heap |-> Store(temp_canvas.heap, temp_canvas.ref,
                                prepare_blend_images(hp[args[1]], hp[args[2]])),
                 rets |-> <<cnv.ref, temp_canvas.ref>>]

\* The arrays a caller holds: RGB and RGBA, of two sizes, one with a
\* transparent pixel.
FrameInputs ==
    {RGBImage(2, 2, 0), RGBAImage(2, 2, 5, {}), RGBAImage(2, 2, 0, {<<<<0, 0>>, 0>>}),
     RGBImage(1, 2, 40), RGBAImage(3, 2, 0, {})}

\* The calls: each stage on one or two of the caller's arrays (the same array
\* may be passed twice), with its other parameters.
Calls(n) ==
    { <<"adjust_levels", <<a>>, lv>> : <<a, lv>> \in (1 .. n) \X {LevelsDefault, LevelsDark} }
      \cup { <<"filter_pixels_2x2", <<a>>, m>> : <<a, m>> \in (1 .. n) \X Modes }
      \cup { <<fn, <<a, b>>, 0>> : <<fn, a, b>> \in
                {"blend_images", "blend_on_canvas", "prepare_blend_images"}
                    \X (1 .. n) \X (1 .. n) }

InitFrame ==
    /\ phase = "input"
    /\ heap \in [1 .. MaxArrays -> FrameInputs]
    /\ called = NoCall
    /\ worker = <<>>
    /\ image1 = None /\ image2 = None /\ blend_new = None /\ blend_old = None
    /\ image = None /\ mode = "TopLeft" /\ filtered = None /\ refiltered = None
    /\ canvas = None /\ overlay = None /\ blended = None
    /\ card_states = <<>>
    /\ result_image = None
    /\ trace = <<>>
    /\ processed = <<>>
    /\ output_files = {}
    /\ saved = NoSave
    /\ outcome = NoOutcome
    /\ history = <<>>
    /\ dims = NoDims
    /\ scaled = <<0, 0>>
    /\ window = NoWindow
    /\ OrderIdle
    /\ prepared = None
    /\ via_prepared = None
    /\ levels_arg = <<>>
    /\ adjusted = None
    /\ int_enums = TRUE
    /\ handler_raised = FALSE

\* One stage is called and returns.
CallStage ==
    /\ phase = "input"
    /\ \E c \in Calls(Len(heap)) :
       \E out \in {Stage(c[1], heap, c[2], c[3])} :
           /\ heap' = out.heap
           /\ called' = [fn |-> c[1], args |-> c[2], rets |-> out.rets, before |-> heap]
    /\ phase' = "returned"
    /\ UNCHANGED <<pureVars, appVars, scaleVars, prepVars, levelVars, growVars, fanVars, orderVars>>

\* The caller writes a pixel of an array the stage returned.
WriteReturned ==
    /\ phase = "returned"
    /\ \E k \in DOMAIN called.rets :
       \E p \in DOMAIN heap[called.rets[k]].px :
           LET r == called.rets[k]
               v == [c \in 1 .. heap[r].ch |-> (heap[r].px[p][c] + 1) % 256]
           IN  heap' = Store(heap, r, [heap[r] EXCEPT !.px[p] = v])
    /\ phase' = "written"
    /\ UNCHANGED <<called, pureVars, appVars, scaleVars, prepVars, levelVars, growVars, fanVars, orderVars>>

NextFrame == CallStage \/ WriteReturned

SpecFrame == InitFrame /\ [][NextFrame]_vars

\* C23: no stage mutates its input: after adjust_levels, filter_pixels_2x2,
\* blend_images, blend_on_canvas or prepare_blend_images returns, every array
\* passed in has the contents it had before the call, and a later write to a
\* returned array does not change an argument.
C23_ArgumentsUnchanged ==
    phase \in {"returned", "written"} =>
        /\ \A i \in DOMAIN called.before : heap[i] = called.before[i]
        /\ \A k \in DOMAIN called.rets : called.rets[k] \notin DOMAIN called.before

\* blend_on_canvas on an RGBA canvas, an overlay that changes it, and a write
\* to the result afterwards: the canvas argument is as it was.
C23_Witness ==
    /\ phase = "written"
    /\ called.fn = "blend_on_canvas"
    /\ called.before[called.args[1]].ch = 4
    /\ called.args[1] # called.args[2]
    /\ heap[called.rets[1]] # called.before[called.args[1]]
    /\ \E p \in DOMAIN heap[called.rets[1]].px :
           heap[called.rets[1]].px[p] # blend_on_canvas(called.before[called.args[1]],
                                                        called.before[called.args[2]]).px[p]
    /\ heap[called.args[1]] = called.before[called.args[1]]

----------------------------------------------------------------------------
(* process_images as fan-out/fan-in: the calls of each layer before its    *)
(* blend_on_canvas are made layer by layer in any interleaving, each on    *)
(* the layer's own image; then the layers are written onto the canvas one  *)
(* after another, in any order.                                            *)

FanModes == {"TopLeft", "DiagTLBR"}
FanLevels == {LevelsDark, LevelsBright}

\* The calls of a layer that come before its blend_on_canvas.
FanCalls(is_main) == SubSeq(LayerCalls(is_main), 1, Len(LayerCalls(is_main)) - 1)

\* One such call on the layer's own image; prepare_blend_images reads only
\* the shape of the main image.
FanCall(img, fn, state, main_shape) ==
    CASE fn = "safe_imread" -> safe_imread(state.path)
      [] fn = "adjust_levels" -> adjust_levels(img, state.card.levels)
      [] fn = "prepare_blend_images" -> prepare_blend_images(main_shape, img)
      [] fn = "filter_pixels_2x2" -> filter_pixels_2x2(img, state.card.position)

InitFan ==
    /\ phase = "fan"
    /\ \E n \in 2 .. Len(FileList) :
       \E f \in [1 .. n -> DOMAIN FileList] :
           /\ \A i, j \in 1 .. n : i < j => f[i] < f[j]
           /\ \E m \in 0 .. n :
              \E pos \in [1 .. n -> FanModes] :
              \E lv \in [1 .. n -> FanLevels] :
                  card_states = [i \in 1 .. n |->
                                    CardState(FileList[f[i]], i - 1, i = m, pos[i], lv[i])]
    /\ worker = [i \in DOMAIN card_states |-> 0]
    /\ processed = [i \in DOMAIN card_states |-> None]
    /\ result_image = None
    /\ trace = <<>>
    /\ output_files = {}
    /\ saved = NoSave
    /\ outcome = NoOutcome
    /\ history = <<>>
    /\ dims = NoDims
    /\ scaled = <<0, 0>>
    /\ window = NoWindow
    /\ OrderIdle
    /\ prepared = None
    /\ via_prepared = None
    /\ levels_arg = <<>>
    /\ adjusted = None
    /\ GrowIdle
    /\ heap = <<>> /\ called = NoCall
    /\ int_enums = TRUE
    /\ handler_raised = FALSE
    /\ image = None /\ mode = "TopLeft" /\ filtered = None /\ refiltered = None
    /\ canvas = None /\ overlay = None /\ blended = None

\* The next call of some layer, whatever the other layers have done so far.
LayerStep ==
    /\ phase = "fan"
    /\ \E i \in DOMAIN card_states :
           LET main == main_canvas_index(card_states)
               calls == FanCalls(i = main)
               state == card_states[sorted_paths(card_states)[i]]
               main_shape == result_zeros(safe_imread(
                                 card_states[sorted_paths(card_states)[main]].path))
           IN  /\ worker[i] < Len(calls)
               /\ processed' = [processed EXCEPT
                                   ![i] = FanCall(processed[i], calls[worker[i] + 1],
                                                  state, main_shape)]
               /\ worker' = [worker EXCEPT ![i] = worker[i] + 1]
    /\ UNCHANGED <<phase, card_states, result_image, trace, output_files, saved, outcome,
                   history, uiVars, pureVars, scaleVars, levelVars, growVars, prepVars,
                   frameVars, orderVars>>

\* Every layer is ready: the canvas of the main image's size is created.
BeginFold ==
    /\ phase = "fan"
    /\ \A i \in DOMAIN card_states :
           worker[i] = Len(FanCalls(i = main_canvas_index(card_states)))
    /\ result_image' = result_zeros(safe_imread(
           card_states[sorted_paths(card_states)[main_canvas_index(card_states)]].path))
    /\ phase' = "fold"
    /\ UNCHANGED <<card_states, processed, trace, output_files, saved, outcome, history,
                   uiVars, pureVars, scaleVars, levelVars, growVars, prepVars, frameVars,
                   fanVars, orderVars>>

\* One more layer is written onto the canvas.
FoldStep ==
    /\ phase = "fold"
    /\ \E i \in DOMAIN card_states :
           /\ \A k \in DOMAIN trace : trace[k][2] # i
           /\ result_image' = blend_on_canvas(result_image, processed[i])
           /\ trace' = Append(trace, <<"blend_on_canvas", i>>)
    /\ phase' = IF Len(trace) + 1 = Len(card_states) THEN "folded" ELSE "fold"
    /\ UNCHANGED <<card_states, processed, output_files, saved, outcome, history,
                   uiVars, pureVars, scaleVars, levelVars, growVars, prepVars, frameVars,
                   fanVars, orderVars>>

NextFan == LayerStep \/ BeginFold \/ FoldStep

SpecFan == InitFan /\ [][NextFan]_vars

\* The order of the sequential loop: the main canvas, then the others ascending.
SequentialOrder ==
    <<main_canvas_index(card_states)>>
        \o OtherLayersFrom(1, Len(card_states), main_canvas_index(card_states))

\* C24: each layer's processed overlay is the one the sequential loop hands
\* to blend_on_canvas, in whatever interleaving the layers were computed; and
\* folding them in layer order gives the result of the sequential loop.
C24_FanOutFanIn ==
    /\ phase \in {"fold", "folded"} =>
           processed = Composite(card_states).blended
    /\ (phase = "folded" /\ Writes = SequentialOrder) =>
           result_image = Composite(card_states).result_image

\* C24, the order of the fold matters: three layers folded in another order
\* than the loop's, the main canvas first, with another result.
C24_OtherOrderDiffers ==
    /\ phase = "folded"
    /\ Len(card_states) = 3
    /\ Writes # SequentialOrder
    /\ Writes[1] = main_canvas_index(card_states)
    /\ processed = Composite(card_states).blended
    /\ result_image # Composite(card_states).result_image

\* Three layers folded in the loop's order: the loop's result.
C24_Witness ==
    /\ phase = "folded"
    /\ Len(card_states) = 3
    /\ Writes = SequentialOrder
    /\ main_canvas_index(card_states) = 2
    /\ result_image = Composite(card_states).result_image

----------------------------------------------------------------------------
(* Two overlays of the canvas's size written onto one canvas, in both      *)
(* orders (process_images writes one layer after another).                 *)

OrderSizes == {<<1, 2>>, <<2, 2>>}

\* An RGBA overlay that keeps the pixels of the set kept (alpha 255 or 128)
\* and is transparent elsewhere, as filter_pixels_2x2 leaves a layer.
KeptOverlay(h, w, s, kept, alpha) ==
    [h |-> h, w |-> w, ch |-> 4,
     px |-> [p \in Pos(h, w) |->
                IF p \in kept THEN TestColour(p[1], p[2], s) \o <<alpha>>
                ELSE <<0, 0, 0, 0>>]]

InitOrder ==
    /\ phase = "input"
    /\ \E <<h, w>> \in OrderSizes :
           /\ canvas \in CanvasInputs(h, w)
           /\ \E ka, kb \in SUBSET Pos(h, w) :
                  /\ overlay = KeptOverlay(h, w, 0, ka, 255)
                  /\ overlay_b = KeptOverlay(h, w, 60, kb, 128)
    /\ blended_ab = None
    /\ blended_ba = None
    /\ blended = None
    /\ image = None
    /\ mode = "TopLeft"
    /\ filtered = None
    /\ refiltered = None
    /\ card_states = <<>>
    /\ result_image = None
    /\ trace = <<>>
    /\ processed = <<>>
    /\ output_files = {}
    /\ saved = NoSave
    /\ outcome = NoOutcome
    /\ history = <<>>
    /\ dims = NoDims
    /\ scaled = <<0, 0>>
    /\ window = NoWindow
    /\ prepared = None
    /\ via_prepared = None
    /\ levels_arg = <<>>
    /\ adjusted = None
    /\ FrameIdle
    /\ GrowIdle
    /\ int_enums = TRUE
    /\ handler_raised = FALSE

\* The two overlays written in both orders.
BlendBoth ==
    /\ phase = "input"
    /\ blended_ab' = blend_on_canvas(blend_on_canvas(canvas, overlay), overlay_b)
    /\ blended_ba' = blend_on_canvas(blend_on_canvas(canvas, overlay_b), overlay)
    /\ phase' = "blended"
    /\ UNCHANGED <<overlay_b, pureVars, appVars, scaleVars, prepVars, levelVars, growVars,
                   frameVars, fanVars>>

NextOrder == BlendBoth

SpecOrder == InitOrder /\ [][NextOrder]_vars

\* The pixels of an overlay with alpha > 0.
Visible(ovl) == { p \in DOMAIN ovl.px : ovl.px[p][4] > 0 }

\* C28: for two RGBA overlays of the canvas's size whose sets of pixels with
\* alpha > 0 are disjoint, the write order does not matter; where the sets
\* overlap, the later-written overlay's pixel is the one in the result.
C28_DisjointCommute ==
    phase = "blended" /\ overlay_b # None =>
        /\ Visible(overlay) \cap Visible(overlay_b) = {} => blended_ab = blended_ba
        /\ \A p \in Visible(overlay) \cap Visible(overlay_b) :
               /\ blended_ab.px[p] = overlay_b.px[p]
               /\ blended_ba.px[p] = overlay.px[p]

\* Complementary diagonals on a 2x2 canvas: both orders give the same image,
\* each overlay's pixels in it.
C28_Witness ==
    /\ phase = "blended"
    /\ Visible(overlay) = {<<0, 0>>, <<1, 1>>}
    /\ Visible(overlay_b) = {<<0, 1>>, <<1, 0>>}
    /\ blended_ab = blended_ba
    /\ blended_ab.px[<<0, 0>>] = overlay.px[<<0, 0>>]
    /\ blended_ab.px[<<0, 1>>] = overlay_b.px[<<0, 1>>]

====
